---------------------------- MODULE Spec2Model ----------------------------
(***************************************************************************)
(* The combinator execution engine of chumsky's zero-copy parser           *)
(* (src/src/zero_copy/combinator.rs) and the text parsers built on it      *)
(* (src/src/text.rs).                                                      *)
(*                                                                         *)
(* A parser is an immutable descriptor (a record whose field k names the   *)
(* combinator); go is the recursive operator Go(M, self, inp), which maps  *)
(* a mode, a descriptor and the state of the input reference to a PResult  *)
(* and the new state of the input reference.  One action per combinator    *)
(* runs its go on the current input reference.                             *)
(***************************************************************************)
EXTENDS Integers, Sequences, FiniteSets, TLC

VARIABLES
    input,    \* the token sequence being parsed (fixed during a parse)
    parser,   \* the combinator under execution, built before the parse
    pc,       \* "ready": go may be called; "done": go has returned
    inp,      \* the input reference: cursor, emitted diagnostics, event log
    mode,     \* the mode M of the last call of go
    start,    \* the cursor at which the last call of go was entered
    res,      \* the PResult of the last call of go
    twin,     \* the outcome of the same call made in the other mode
    frame     \* the locals (count, output) of a go that is inside its loop

vars == <<input, parser, pc, inp, mode, start, res, twin, frame>>

(***************************************************************************)
(* Bounds                                                                  *)
(***************************************************************************)
MaxLen == 5     \* longest input
MaxCount == 2   \* largest at_least / at_most / arity N

MaxList == 4    \* longest input of a separated list
MaxListCount == 3   \* largest at_least / at_most of a separated list
MaxText == 3    \* longest text input
MaxKeyword == 2 \* longest keyword
MaxLine == 2    \* longest input of newline

Tokens == {"-", ","}
\* A second kind of item, for the inputs of the separated lists.
ListTokens == Tokens \cup {"+"}
\* Characters: a letter (a hexadecimal digit too), the underscore, two
\* decimal digits, a punctuation mark and a letter outside ASCII.
Chars == {"a", "_", "0", "7", ".", "lambda"}
Modes == {"Check", "Emit"}

RECURSIVE SeqsUpTo(_, _)
SeqsUpTo(S, n) ==
    IF n = 0 THEN {<< >>}
    ELSE LET shorter == SeqsUpTo(S, n - 1)
         IN shorter \cup {Append(s, t) : s \in {q \in shorter : Len(q) = n - 1}, t \in S}

(***************************************************************************)
(* Option, mode-shaped outputs, results                                    *)
(***************************************************************************)
None == << >>
Some(v) == <<v>>

\* M::bind: Emit materialises the value, Check carries none.
MBind(M, v) == IF M = "Emit" THEN Some(v) ELSE None

Other(M) == IF M = "Emit" THEN "Check" ELSE "Emit"

Ok(out, st) == [ok |-> TRUE, panic |-> FALSE, out |-> out, err |-> None, st |-> st]
Err(e, st) == [ok |-> FALSE, panic |-> FALSE, out |-> None, err |-> Some(e), st |-> st]
Panic(st) == [ok |-> FALSE, panic |-> TRUE, out |-> None, err |-> None, st |-> st]

\* Located::at
Located(pos, by) == [pos |-> pos, by |-> by]

(***************************************************************************)
(* The input reference                                                     *)
(***************************************************************************)
NewInputRef(pos) == [pos |-> pos, emitted |-> << >>, ev |-> << >>]

save(st) == st.pos

rewind(st, checkpoint) == [st EXCEPT !.pos = checkpoint]

\* inp.next(): the position read and the token there, advancing past it.
next(st) ==
    IF st.pos < Len(input)
    THEN [at |-> st.pos, tok |-> Some(input[st.pos + 1]), st |-> [st EXCEPT !.pos = @ + 1]]
    ELSE [at |-> st.pos, tok |-> None, st |-> st]

emit(st, e) == [st EXCEPT !.emitted = Append(@, e)]

\* The event log is a history of the call: child invocations, accumulations,
\* buffer operations.
Log(st, e) == [st EXCEPT !.ev = Append(@, e)]

RECURSIVE Go(_, _, _)

(***************************************************************************)
(* Leaf parsers (callers' primitives)                                      *)
(***************************************************************************)
RECURSIVE Just_loop(_, _, _)
Just_loop(seq, i, st) ==
    IF i > Len(seq) THEN [ok |-> TRUE, at |-> st.pos, st |-> st]
    ELSE LET n == next(st)
         IN IF n.tok = Some(seq[i]) THEN Just_loop(seq, i + 1, n.st)
            ELSE [ok |-> FALSE, at |-> n.at, st |-> n.st]

\* just(seq): every token of seq in order; a mismatch fails where it was read.
Just_go(M, self, st) ==
    LET r == Just_loop(self.seq, 1, st)
        st1 == Log(r.st, [e |-> "leaf", tag |-> self.tag, mode |-> M,
                          at |-> st.pos, ok |-> r.ok, end |-> r.st.pos])
    IN IF r.ok THEN Ok(MBind(M, self.seq), st1)
       ELSE Err(Located(r.at, {self.tag}), st1)

Just(tag, seq) == [k |-> "Just", tag |-> tag, seq |-> seq]

\* any(): the next token, whatever it is; fails at the end of the input.
Any_go(M, self, st) ==
    LET n == next(st)
        st1 == Log(n.st, [e |-> "leaf", tag |-> self.tag, mode |-> M,
                          at |-> st.pos, ok |-> n.tok # None, end |-> n.st.pos])
    IN IF n.tok # None THEN Ok(MBind(M, n.tok[1]), st1)
       ELSE Err(Located(n.at, {self.tag}), st1)

AnyTok(tag) == [k |-> "Any", tag |-> tag]

\* one_of(set), select! { c if c is in set => .. }: the next token if it is in
\* the set.
OneOf_go(M, self, st) ==
    LET n == next(st)
        ok == n.tok # None /\ n.tok[1] \in self.set
        st1 == Log(n.st, [e |-> "leaf", tag |-> self.tag, mode |-> M,
                          at |-> st.pos, ok |-> ok, end |-> n.st.pos])
    IN IF ok THEN Ok(MBind(M, n.tok[1]), st1)
       ELSE Err(Located(n.at, {self.tag}), st1)

OneOf(tag, set) == [k |-> "OneOf", tag |-> tag, set |-> set]

(***************************************************************************)
(* Container<T> for Vec<T>                                                 *)
(***************************************************************************)
push(output, item) == Append(output, item)

\* Container<T> for (): push drops the item.
push_unit(output, item) == output

\* HashMap::insert / BTreeMap::insert: a map is the sequence of its entries
\* <<key, value>>; the value of a key that is there is replaced.
HashMap_insert(m, key, value) ==
    IF \E i \in 1..Len(m) : m[i][1] = key
    THEN [i \in 1..Len(m) |-> IF m[i][1] = key THEN <<key, value>> ELSE m[i]]
    ELSE Append(m, <<key, value>>)

\* Mutant: the entry is appended, whatever the map holds.
push_map_appends(output, item) == Append(output, <<item[1], item[2]>>)

\* Container<(K, V)> for HashMap<K, V> and BTreeMap<K, V>
push_map(output, item) == HashMap_insert(output, item[1], item[2])

\* HashSet::insert / BTreeSet::insert: a set is the sequence of its members;
\* a member that is there is not added again.
HashSet_insert(s, item) ==
    IF \E i \in 1..Len(s) : s[i] = item THEN s ELSE Append(s, item)

\* Container<T> for HashSet<T> and BTreeSet<T>
push_set(output, item) == HashSet_insert(output, item)

\* C::default()
Container_default(c) == << >>

\* C::push, for the container kind c
Container_push(c, output, item) ==
    CASE c = "unit" -> push_unit(output, item)
      [] c = "Vec" -> push(output, item)
      [] c = "map" -> push_map(output, item)
      [] c = "set" -> push_set(output, item)

\* output = M::map(output, |mut output| { M::map(item, |item| output.push(item)); output })
MPush(M, output, item) ==
    IF M = "Emit" THEN Some(push(output[1], item[1])) ELSE None

(***************************************************************************)
(* Repeated                                                                *)
(***************************************************************************)
\* Mutant: the failing attempt is not rewound.
RECURSIVE Repeated_loop_no_rewind(_, _, _, _, _)
Repeated_loop_no_rewind(M, self, st, count, output) ==
    LET r == Go(M, self.parser, st)
    IN IF r.panic THEN r
       ELSE IF r.ok
       THEN LET output1 == MPush(M, output, r.out)
                count1 == count + 1
                st1 == Log(r.st, [e |-> "count", n |-> count1])
            IN IF self.at_most # None /\ count1 >= self.at_most[1]
               THEN Ok(output1, st1)
               ELSE Repeated_loop_no_rewind(M, self, st1, count1, output1)
       ELSE IF count >= self.at_least THEN Ok(output, r.st) ELSE Err(r.err[1], r.st)

RECURSIVE Repeated_loop(_, _, _, _, _)
Repeated_loop(M, self, st, count, output) ==
    LET before == save(st)
        r == Go(M, self.parser, st)
    IN IF r.panic THEN r
       ELSE IF r.ok
       THEN LET output1 == MPush(M, output, r.out)
                count1 == count + 1
                st1 == Log(r.st, [e |-> "count", n |-> count1])
            IN IF self.at_most # None /\ count1 >= self.at_most[1]
               THEN Ok(output1, st1)
               ELSE Repeated_loop(M, self, st1, count1, output1)
       ELSE LET st1 == rewind(r.st, before)
            IN IF count >= self.at_least THEN Ok(output, st1) ELSE Err(r.err[1], st1)

Repeated_go(M, self, st) == Repeated_loop(M, self, st, 0, MBind(M, << >>))

Repeated(p, at_least, at_most) ==
    [k |-> "Repeated", parser |-> p, at_least |-> at_least, at_most |-> at_most]


(***************************************************************************)
(* Closures held by the descriptors.  A closure is named by a string and   *)
(* applied by the operators below.                                         *)
(***************************************************************************)
\* Map's mapper: a total function of the output.
ApplyMapper(f, v) == [mapped |-> v]

\* M::map(out, f)
MMap(M, out, f) == IF M = "Emit" THEN Some(ApplyMapper(f, out[1])) ELSE None

\* M::combine(a, b, |a, b| (a, b))
MCombine(M, a, b) == IF M = "Emit" THEN Some(<<a[1], b[1]>>) ELSE None

\* OrElse's or_else: Fn(E) -> Result<O, E>
ApplyOrElse(f, e) ==
    IF f = "recover" THEN [ok |-> TRUE, out |-> <<"default">>, err |-> e]
    ELSE [ok |-> FALSE, out |-> << >>, err |-> [e EXCEPT !.by = @ \cup {"or_else"}]]

\* InputRef::slice(before..after)
slice(before, after) == SubSeq(input, before + 1, after)

\* InputRef::last_pos
last_pos(st) == st.pos

(***************************************************************************)
(* Transformation combinators                                              *)
(***************************************************************************)
MapSlice_go(M, self, st) ==
    LET before == save(st)
        r == Go("Check", self.parser, st)
    IN IF ~r.ok THEN r
       ELSE LET after == save(r.st)
            IN Ok(MBind(M, slice(before, after)), r.st)

Filter_go(M, self, st) ==
    LET before == save(st)
        r == Go("Emit", self.parser, st)
    IN IF ~r.ok THEN r
       ELSE IF r.out[1] \in self.filter THEN Ok(MBind(M, r.out[1]), r.st)
       ELSE Err(Located(last_pos(r.st), {"filter"}), r.st)

Map_go(M, self, st) ==
    LET r == Go(M, self.parser, st)
    IN IF ~r.ok THEN r ELSE Ok(MMap(M, r.out, self.mapper), r.st)

\* The mapper decides on the value: it accepts the outputs in self.mapper.
TryMap_go(M, self, st) ==
    LET before == save(st)
        r == Go("Emit", self.parser, st)
    IN IF ~r.ok THEN r
       ELSE IF r.out[1] \in self.mapper THEN Ok(MBind(M, r.out[1]), r.st)
       ELSE Err(Located(last_pos(r.st), {"try_map"}), r.st)

\* inp.state(): the user state, carried by the input reference of a parse
\* that has one.
state(st) == st.state

\* The state-aware mapper, Fn(OA, I::Span, &mut S) -> O: it counts its calls
\* in the user state and returns the value with the count it saw.
ApplyStateMapper(f, v, s) ==
    [ok |-> TRUE, out |-> [mapped |-> v, seen |-> s], state |-> s + 1]

\* The fallible one, Fn(OA, I::Span, &mut S) -> Result<O, E>: it accepts the
\* outputs in f, and counts its calls whether it accepts or not.
ApplyTryStateMapper(f, v, s) ==
    [ok |-> v \in f, out |-> [mapped |-> v, seen |-> s], state |-> s + 1]

\* A call of the mapper: it is logged, and the user state is what it left.
CallMapper(a, st) == [Log(st, [e |-> "mapper"]) EXCEPT !.state = a.state]

\* M::bind(|| (self.mapper)(out, span, state)): the closure runs in Emit only.
MapWithState_go(M, self, st) ==
    LET before == save(st)
        r == Go("Emit", self.parser, st)
    IN IF ~r.ok THEN r
       ELSE IF M = "Emit"
       THEN LET a == ApplyStateMapper(self.mapper, r.out[1], state(r.st))
            IN Ok(Some(a.out), CallMapper(a, r.st))
       ELSE Ok(None, r.st)

TryMapWithState_go(M, self, st) ==
    LET before == save(st)
        r == Go("Emit", self.parser, st)
    IN IF ~r.ok THEN r
       ELSE LET a == ApplyTryStateMapper(self.mapper, r.out[1], state(r.st))
                st1 == CallMapper(a, r.st)
            IN IF a.ok THEN Ok(MBind(M, a.out), st1)
               ELSE Err(Located(last_pos(st1), {"try_map_with_state"}), st1)

To_go(M, self, st) ==
    LET r == Go("Check", self.parser, st)
    IN IF ~r.ok THEN r ELSE Ok(MBind(M, self.to), r.st)

(***************************************************************************)
(* Sequencing combinators                                                  *)
(***************************************************************************)
Then_go(M, self, st) ==
    LET a == Go(M, self.parser_a, st)
    IN IF ~a.ok THEN a
       ELSE LET b == Go(M, self.parser_b, a.st)
            IN IF ~b.ok THEN b ELSE Ok(MCombine(M, a.out, b.out), b.st)

IgnoreThen_go(M, self, st) ==
    LET a == Go("Check", self.parser_a, st)
    IN IF ~a.ok THEN a
       ELSE LET b == Go(M, self.parser_b, a.st)
            IN IF ~b.ok THEN b ELSE Ok(b.out, b.st)

ThenIgnore_go(M, self, st) ==
    LET a == Go(M, self.parser_a, st)
    IN IF ~a.ok THEN a
       ELSE LET b == Go("Check", self.parser_b, a.st)
            IN IF ~b.ok THEN b ELSE Ok(a.out, b.st)

\* ThenWith's then: Fn(OA) -> B.  "same" builds the parser that accepts the
\* first parser's output once more, "sep" the one that accepts a separator.
ApplyThen(f, output) ==
    IF f = "same" THEN Just("then", output) ELSE Just("then", <<",">>)

ThenWith_go(M, self, st) ==
    LET before == save(st)
        r == Go("Emit", self.parser, st)
    IN IF r.panic THEN r
       ELSE IF r.ok
       THEN LET then == ApplyThen(self.then, r.out[1])
                before2 == save(r.st)    \* shadows the outer `before`
                r2 == Go(M, then, r.st)
            IN IF r2.panic \/ r2.ok THEN r2
               ELSE Err(r2.err[1], rewind(r2.st, before2))
       ELSE Err(r.err[1], rewind(r.st, before))

\* Mutant: a failure gives back what was consumed.
DelimitedBy_go_rewinds(M, self, st) ==
    LET before == save(st)
        s == Go("Check", self.start, st)
    IN IF s.panic THEN s
       ELSE IF ~s.ok THEN Err(s.err[1], rewind(s.st, before))
       ELSE LET a == Go(M, self.parser, s.st)
            IN IF a.panic THEN a
               ELSE IF ~a.ok THEN Err(a.err[1], rewind(a.st, before))
               ELSE LET e == Go("Check", self.end, a.st)
                    IN IF e.panic THEN e
                       ELSE IF ~e.ok THEN Err(e.err[1], rewind(e.st, before))
                       ELSE Ok(a.out, e.st)

DelimitedBy_go(M, self, st) ==
    LET s == Go("Check", self.start, st)
    IN IF ~s.ok THEN s
       ELSE LET a == Go(M, self.parser, s.st)
            IN IF ~a.ok THEN a
               ELSE LET e == Go("Check", self.end, a.st)
                    IN IF ~e.ok THEN e ELSE Ok(a.out, e.st)

PaddedBy_go(M, self, st) ==
    LET s == Go("Check", self.padding, st)
    IN IF ~s.ok THEN s
       ELSE LET a == Go(M, self.parser, s.st)
            IN IF ~a.ok THEN a
               ELSE LET e == Go("Check", self.padding, a.st)
                    IN IF ~e.ok THEN e ELSE Ok(a.out, e.st)

(***************************************************************************)
(* Choice and lookahead combinators                                        *)
(***************************************************************************)
\* Located::prioritize(other, merge): the error that got farther wins, a tie
\* merges the two.
prioritize(ea, eb) ==
    IF ea.pos > eb.pos THEN ea
    ELSE IF ea.pos < eb.pos THEN eb
    ELSE Located(ea.pos, ea.by \cup eb.by)

\* Mutant: the second alternative is tried first.
Or_go_second_first(M, self, st) ==
    LET before == save(st)
        b == Go(M, self.parser_b, st)
    IN IF b.panic \/ b.ok THEN b
       ELSE LET a == Go(M, self.parser_a, rewind(b.st, before))
            IN IF a.panic \/ a.ok THEN a
               ELSE Err(prioritize(a.err[1], b.err[1]), a.st)

\* Mutant: the second alternative runs from where the first one failed.
Or_go_no_backtrack(M, self, st) ==
    LET a == Go(M, self.parser_a, st)
    IN IF a.panic \/ a.ok THEN a
       ELSE LET b == Go(M, self.parser_b, a.st)
            IN IF b.panic \/ b.ok THEN b
               ELSE Err(prioritize(a.err[1], b.err[1]), b.st)

Or_go(M, self, st) ==
    LET before == save(st)
        a == Go(M, self.parser_a, st)
    IN IF a.panic \/ a.ok THEN a
       ELSE LET b == Go(M, self.parser_b, rewind(a.st, before))
            IN IF b.panic \/ b.ok THEN b
               ELSE Err(prioritize(a.err[1], b.err[1]), b.st)

\* Mutant: the fallback runs from where the primary parser failed.
RecoverWith_go_no_rewind(M, self, st) ==
    LET r == Go(M, self.parser, st)
    IN IF r.panic \/ r.ok THEN r
       ELSE LET f == Go(M, self.fallback, r.st)
            IN IF f.panic THEN f
               ELSE IF f.ok THEN Ok(f.out, emit(f.st, r.err[1]))
               ELSE Err(r.err[1], f.st)

RecoverWith_go(M, self, st) ==
    LET before == save(st)
        r == Go(M, self.parser, st)
    IN IF r.panic \/ r.ok THEN r
       ELSE LET f == Go(M, self.fallback, rewind(r.st, before))
            IN IF f.panic THEN f
               ELSE IF f.ok THEN Ok(f.out, emit(f.st, r.err[1]))
               ELSE Err(r.err[1], f.st)

OrNot_go(M, self, st) ==
    LET before == save(st)
        r == Go(M, self.parser, st)
    IN IF r.panic THEN r
       ELSE IF r.ok THEN Ok(IF M = "Emit" THEN Some(Some(r.out[1])) ELSE None, r.st)
       ELSE Ok(MBind(M, None), rewind(r.st, before))

Not_go(M, self, st) ==
    LET before == save(st)
        result == Go("Check", self.parser, st)
        st1 == rewind(result.st, before)
    IN IF result.panic THEN result
       ELSE IF result.ok
       THEN LET n == next(st1)
            IN Err(Located(n.at, {"not"}), n.st)
       ELSE Ok(MBind(M, << >>), st1)

\* Mutant: after the guard succeeded the cursor stays where the guard ended.
AndIs_go_stays_after_guard(M, self, st) ==
    LET before == save(st)
        a == Go(M, self.parser_a, st)
    IN IF a.panic THEN a
       ELSE IF a.ok
       THEN LET b == Go("Check", self.parser_b, rewind(a.st, before))
            IN IF b.panic THEN b
               ELSE IF b.ok THEN Ok(a.out, b.st)
               ELSE Err(b.err[1], rewind(b.st, before))
       ELSE Err(a.err[1], rewind(a.st, before))

AndIs_go(M, self, st) ==
    LET before == save(st)
        a == Go(M, self.parser_a, st)
    IN IF a.panic THEN a
       ELSE IF a.ok
       THEN LET after == save(a.st)
                b == Go("Check", self.parser_b, rewind(a.st, before))
            IN IF b.panic THEN b
               ELSE IF b.ok THEN Ok(a.out, rewind(b.st, after))
               ELSE Err(b.err[1], rewind(b.st, before))
       ELSE Err(a.err[1], rewind(a.st, before))

\* Mutant: the input consumed by the child stays consumed.
Rewind_go_keeps_cursor(M, self, st) ==
    Go(M, self.parser, st)

Rewind_go(M, self, st) ==
    LET before == save(st)
        r == Go(M, self.parser, st)
    IN IF ~r.ok THEN r ELSE Ok(r.out, rewind(r.st, before))

OrElse_go(M, self, st) ==
    LET r == Go(M, self.parser, st)
    IN IF r.panic \/ r.ok THEN r
       ELSE LET f == ApplyOrElse(self.or_else, r.err[1])
            IN IF f.ok THEN Ok(MBind(M, f.out), r.st)
               ELSE Err(Located(r.err[1].pos, f.err.by), r.st)

(***************************************************************************)
(* SeparatedBy                                                             *)
(***************************************************************************)
\* Mutant: a failed separator attempt is not rewound.
TrySeparator_no_rewind(self, st) ==
    LET s == Go("Check", self.separator, st)
    IN IF s.panic \/ s.ok THEN s ELSE Ok(None, s.st)

\* if let Err(_) = self.separator.go::<Check>(inp) { inp.rewind(before_separator); }
TrySeparator(self, st) ==
    LET before_separator == save(st)
        s == Go("Check", self.separator, st)
    IN IF s.panic \/ s.ok THEN s
       ELSE Ok(None, rewind(s.st, before_separator))

\* Steps 6 and 7: the optional trailing separator, then the output.
SeparatedBy_finish(M, self, st, output) ==
    IF self.allow_trailing
    THEN LET s == TrySeparator(self, st)
         IN IF s.panic THEN s ELSE Ok(output, s.st)
    ELSE Ok(output, st)

\* Mutant: when the item after a separator fails and enough items are held,
\* the separator stays consumed.
RECURSIVE SeparatedBy_loop_keeps_separator(_, _, _, _, _)
SeparatedBy_loop_keeps_separator(M, self, st, count, output) ==
    LET before_separator == save(st)
        s == Go("Check", self.separator, st)
    IN IF s.panic THEN s
       ELSE IF ~s.ok
       THEN IF count < self.at_least
            THEN Err(s.err[1], rewind(s.st, before_separator))
            ELSE SeparatedBy_finish(M, self, rewind(s.st, before_separator), output)
       ELSE LET r == Go(M, self.parser, s.st)
            IN IF r.panic THEN r
               ELSE IF r.ok
               THEN LET output1 == MPush(M, output, r.out)
                        count1 == count + 1
                        st1 == Log(r.st, [e |-> "count", n |-> count1])
                    IN IF self.at_most # None /\ count1 >= self.at_most[1]
                       THEN SeparatedBy_finish(M, self, st1, output1)
                       ELSE SeparatedBy_loop_keeps_separator(M, self, st1, count1, output1)
               ELSE IF count < self.at_least
               THEN Err(r.err[1], rewind(r.st, before_separator))
               ELSE SeparatedBy_finish(M, self, rewind(r.st, save(s.st)), output)

\* Mutant: when the item after a separator fails and more items are wanted,
\* the failure leaves the separator consumed.
RECURSIVE SeparatedBy_loop_fails_after_separator(_, _, _, _, _)
SeparatedBy_loop_fails_after_separator(M, self, st, count, output) ==
    LET before_separator == save(st)
        s == Go("Check", self.separator, st)
    IN IF s.panic THEN s
       ELSE IF ~s.ok
       THEN IF count < self.at_least
            THEN Err(s.err[1], rewind(s.st, before_separator))
            ELSE SeparatedBy_finish(M, self, rewind(s.st, before_separator), output)
       ELSE LET r == Go(M, self.parser, s.st)
            IN IF r.panic THEN r
               ELSE IF r.ok
               THEN LET output1 == MPush(M, output, r.out)
                        count1 == count + 1
                        st1 == Log(r.st, [e |-> "count", n |-> count1])
                    IN IF self.at_most # None /\ count1 >= self.at_most[1]
                       THEN SeparatedBy_finish(M, self, st1, output1)
                       ELSE SeparatedBy_loop_fails_after_separator(M, self, st1, count1,
                                                                   output1)
               ELSE IF count < self.at_least
               THEN Err(r.err[1], rewind(r.st, save(s.st)))
               ELSE SeparatedBy_finish(M, self, rewind(r.st, before_separator), output)

\* Steps 3 to 5: separator, item, until a break or a return.
RECURSIVE SeparatedBy_loop(_, _, _, _, _)
SeparatedBy_loop(M, self, st, count, output) ==
    LET before_separator == save(st)
        s == Go("Check", self.separator, st)
    IN IF s.panic THEN s
       ELSE IF ~s.ok
       THEN IF count < self.at_least
            THEN Err(s.err[1], rewind(s.st, before_separator))
            ELSE SeparatedBy_finish(M, self, rewind(s.st, before_separator), output)
       ELSE LET r == Go(M, self.parser, s.st)
            IN IF r.panic THEN r
               ELSE IF r.ok
               THEN LET output1 == MPush(M, output, r.out)
                        count1 == count + 1
                        st1 == Log(r.st, [e |-> "count", n |-> count1])
                    IN IF self.at_most # None /\ count1 >= self.at_most[1]
                       THEN SeparatedBy_finish(M, self, st1, output1)
                       ELSE SeparatedBy_loop(M, self, st1, count1, output1)
               ELSE IF count < self.at_least
               THEN Err(r.err[1], rewind(r.st, before_separator))
               ELSE SeparatedBy_finish(M, self, rewind(r.st, before_separator), output)

\* Step 2: the first item.
SeparatedBy_first(M, self, st) ==
    LET output == MBind(M, << >>)
        before == save(st)
        r == Go(M, self.parser, st)
    IN IF r.panic THEN r
       ELSE IF r.ok
       THEN SeparatedBy_loop(M, self, Log(r.st, [e |-> "count", n |-> 1]), 1,
                             MPush(M, output, r.out))
       ELSE IF self.at_least = 0 THEN Ok(output, rewind(r.st, before))
       ELSE Err(r.err[1], rewind(r.st, before))

\* Step 1: the optional leading separator.
SeparatedBy_go(M, self, st) ==
    IF self.allow_leading
    THEN LET s == TrySeparator(self, st)
         IN IF s.panic THEN s ELSE SeparatedBy_first(M, self, s.st)
    ELSE SeparatedBy_first(M, self, st)

SeparatedBy(p, sep, at_least, at_most, allow_leading, allow_trailing) ==
    [k |-> "SeparatedBy", parser |-> p, separator |-> sep, at_least |-> at_least,
     at_most |-> at_most, allow_leading |-> allow_leading,
     allow_trailing |-> allow_trailing]

(***************************************************************************)
(* ContainerExactly<T, N> for () and for [T; N]                            *)
(*                                                                         *)
(* A buffer is a sequence of N slots; a slot is None (uninitialized) or    *)
(* Some(value).  The operations log what they do to each slot.             *)
(***************************************************************************)
uninit(c, N) == IF c = "array" THEN [j \in 1..N |-> None] ELSE << >>

\* uninit[i].write(item): indexing panics when i is out of range.
write(c, buf, i, item, st) ==
    IF c # "array" THEN [panic |-> FALSE, buf |-> buf, st |-> st]
    ELSE IF i >= Len(buf) THEN [panic |-> TRUE, buf |-> buf, st |-> st]
    ELSE [panic |-> FALSE, buf |-> [buf EXCEPT ![i + 1] = Some(item)],
          st |-> Log(st, [e |-> "write", i |-> i])]

\* o.assume_init_drop() on slot j: releases the value; undefined on an
\* uninitialized slot.
RECURSIVE drop_slots(_, _, _, _)
drop_slots(buf, j, i, st) ==
    IF j >= i THEN st
    ELSE drop_slots(buf, j + 1, i,
            Log(st, [e |-> IF buf[j + 1] = None THEN "drop_uninit" ELSE "drop", i |-> j]))

\* Mutant: every slot of the buffer is released, written or not.
drop_before_whole_buffer(c, buf, i, st) ==
    IF c # "array" THEN st ELSE drop_slots(buf, 0, Len(buf), st)

\* uninit[..i].iter_mut().for_each(|o| o.assume_init_drop())
drop_before(c, buf, i, st) ==
    IF c # "array" THEN st ELSE drop_slots(buf, 0, i, st)

\* MaybeUninit::array_assume_init(uninit): undefined unless every slot is
\* initialized.
take(c, buf, st) ==
    IF c # "array" THEN st
    ELSE Log(st, [e |-> IF \E j \in 1..Len(buf) : buf[j] = None
                        THEN "take_uninit" ELSE "take", i |-> Len(buf)])

TakeOut(c, buf) == IF c = "array" THEN [j \in 1..Len(buf) |-> buf[j][1]] ELSE << >>

(***************************************************************************)
(* RepeatedExactly<N>                                                      *)
(***************************************************************************)
RECURSIVE RepeatedExactly_loop(_, _, _, _, _)
RepeatedExactly_loop(M, self, st, i, output) ==
    LET before == save(st)
        r == Go(M, self.parser, st)
    IN IF r.panic THEN r
       ELSE IF r.ok
       THEN LET w == IF M = "Emit" THEN write(self.c, output[1], i, r.out[1], r.st)
                     ELSE [panic |-> FALSE, buf |-> << >>, st |-> r.st]
                output1 == IF M = "Emit" THEN Some(w.buf) ELSE None
                i1 == i + 1
            IN IF w.panic THEN Panic(w.st)
               ELSE IF i1 = self.N
               THEN IF M = "Emit"
                    THEN Ok(Some(TakeOut(self.c, w.buf)), take(self.c, w.buf, w.st))
                    ELSE Ok(None, w.st)
               ELSE RepeatedExactly_loop(M, self, w.st, i1, output1)
       ELSE LET st1 == rewind(r.st, before)
                st2 == IF M = "Emit" THEN drop_before(self.c, output[1], i, st1) ELSE st1
            IN Err(r.err[1], st2)

RepeatedExactly_go(M, self, st) ==
    RepeatedExactly_loop(M, self, st, 0, MBind(M, uninit(self.c, self.N)))

RepeatedExactly(p, c, N) == [k |-> "RepeatedExactly", parser |-> p, c |-> c, N |-> N]

(***************************************************************************)
(* SeparatedByExactly<N>: the buffer is a raw [MaybeUninit<_>; N] whatever *)
(* the mode.                                                               *)
(***************************************************************************)
\* M::array(MaybeUninit::array_assume_init(output))
MArray(M, buf) == IF M = "Emit" THEN Some([j \in 1..Len(buf) |-> buf[j][1][1]]) ELSE None

SeparatedByExactly_done(M, self, st, buf) ==
    IF self.allow_trailing
    THEN LET s == TrySeparator(self, st)
         IN IF s.panic THEN s ELSE Ok(MArray(M, buf), take("array", buf, s.st))
    ELSE Ok(MArray(M, buf), take("array", buf, st))

\* Mutant: when a separator is missing, the item just written is not
\* released.
RECURSIVE SeparatedByExactly_loop_leaks_last(_, _, _, _, _)
SeparatedByExactly_loop_leaks_last(M, self, st, i, output) ==
    LET before == save(st)
        r == Go(M, self.parser, st)
    IN IF r.panic THEN r
       ELSE IF r.ok
       THEN LET w == write("array", output, i, r.out, r.st)
                i1 == i + 1
            IN IF w.panic THEN Panic(w.st)
               ELSE IF i1 = self.N THEN SeparatedByExactly_done(M, self, w.st, w.buf)
               ELSE LET before_separator == save(w.st)
                        s == Go("Check", self.separator, w.st)
                    IN IF s.panic THEN s
                       ELSE IF s.ok
                       THEN SeparatedByExactly_loop_leaks_last(M, self, s.st, i1, w.buf)
                       ELSE Err(s.err[1],
                                drop_before("array", w.buf, i,
                                            rewind(s.st, before_separator)))
       ELSE Err(r.err[1], drop_before("array", output, i, rewind(r.st, before)))

RECURSIVE SeparatedByExactly_loop(_, _, _, _, _)
SeparatedByExactly_loop(M, self, st, i, output) ==
    LET before == save(st)
        r == Go(M, self.parser, st)
    IN IF r.panic THEN r
       ELSE IF r.ok
       THEN LET w == write("array", output, i, r.out, r.st)
                i1 == i + 1
            IN IF w.panic THEN Panic(w.st)
               ELSE IF i1 = self.N THEN SeparatedByExactly_done(M, self, w.st, w.buf)
               ELSE LET before_separator == save(w.st)
                        s == Go("Check", self.separator, w.st)
                    IN IF s.panic THEN s
                       ELSE IF s.ok THEN SeparatedByExactly_loop(M, self, s.st, i1, w.buf)
                       ELSE Err(s.err[1],
                                drop_before("array", w.buf, i1,
                                            rewind(s.st, before_separator)))
       ELSE Err(r.err[1], drop_before("array", output, i, rewind(r.st, before)))

SeparatedByExactly_go(M, self, st) ==
    IF self.allow_leading
    THEN LET s == TrySeparator(self, st)
         IN IF s.panic THEN s
            ELSE SeparatedByExactly_loop(M, self, s.st, 0, uninit("array", self.N))
    ELSE SeparatedByExactly_loop(M, self, st, 0, uninit("array", self.N))

SeparatedByExactly(p, sep, N, allow_leading, allow_trailing) ==
    [k |-> "SeparatedByExactly", parser |-> p, separator |-> sep, N |-> N,
     allow_leading |-> allow_leading, allow_trailing |-> allow_trailing]

(***************************************************************************)
(* Dispatch of go on the combinator                                        *)
(***************************************************************************)
Go(M, self, st) ==
    CASE self.k = "Just" -> Just_go(M, self, st)
      [] self.k = "Any" -> Any_go(M, self, st)
      [] self.k = "OneOf" -> OneOf_go(M, self, st)
      [] self.k = "MapSlice" -> MapSlice_go(M, self, st)
      [] self.k = "Filter" -> Filter_go(M, self, st)
      [] self.k = "Map" -> Map_go(M, self, st)
      [] self.k = "TryMap" -> TryMap_go(M, self, st)
      [] self.k = "MapWithState" -> MapWithState_go(M, self, st)
      [] self.k = "TryMapWithState" -> TryMapWithState_go(M, self, st)
      [] self.k = "To" -> To_go(M, self, st)
      [] self.k = "Then" -> Then_go(M, self, st)
      [] self.k = "IgnoreThen" -> IgnoreThen_go(M, self, st)
      [] self.k = "ThenIgnore" -> ThenIgnore_go(M, self, st)
      [] self.k = "ThenWith" -> ThenWith_go(M, self, st)
      [] self.k = "DelimitedBy" -> DelimitedBy_go(M, self, st)
      [] self.k = "PaddedBy" -> PaddedBy_go(M, self, st)
      [] self.k = "Or" -> Or_go(M, self, st)
      [] self.k = "RecoverWith" -> RecoverWith_go(M, self, st)
      [] self.k = "Repeated" -> Repeated_go(M, self, st)
      [] self.k = "SeparatedBy" -> SeparatedBy_go(M, self, st)
      [] self.k = "OrNot" -> OrNot_go(M, self, st)
      [] self.k = "Not" -> Not_go(M, self, st)
      [] self.k = "AndIs" -> AndIs_go(M, self, st)
      [] self.k = "RepeatedExactly" -> RepeatedExactly_go(M, self, st)
      [] self.k = "SeparatedByExactly" -> SeparatedByExactly_go(M, self, st)
      [] self.k = "Rewind" -> Rewind_go(M, self, st)
      [] self.k = "OrElse" -> OrElse_go(M, self, st)

(***************************************************************************)
(* The parsers built before the parse                                      *)
(***************************************************************************)
Item == Just("item", <<"-">>)
ListItem == OneOf("item", {"-", "+"})
Sep == Just("sep", <<",">>)

LeafSeqs == {<<"-">>, <<",">>, <<"-", ",">>}
Leaves(tag) == {Just(tag, s) : s \in LeafSeqs}
Units == {Just("item", <<"-">>), Just("item", <<"-", ",">>)}

Counts == 0..MaxCount
AtMosts == {None} \cup {Some(n) : n \in Counts}

TransformParsers ==
    {[k |-> "Map", parser |-> p, mapper |-> "f"] : p \in Leaves("parser")}
    \cup {[k |-> "Filter", parser |-> AnyTok("parser"), filter |-> f] : f \in SUBSET Tokens}
    \cup {[k |-> "To", parser |-> p, to |-> "to"] : p \in Leaves("parser")}

SequenceParsers ==
    {[k |-> c, parser_a |-> a, parser_b |-> b] :
        c \in {"Then", "IgnoreThen", "ThenIgnore"}, a \in Leaves("a"), b \in Leaves("b")}
    \cup {[k |-> "ThenWith", parser |-> p, then |-> f] :
            p \in Leaves("parser"), f \in {"same", "sep"}}
    \cup {[k |-> "DelimitedBy", parser |-> p, start |-> s, end |-> e] :
            p \in Leaves("parser"), s \in Leaves("start"), e \in Leaves("end")}
    \cup {[k |-> "PaddedBy", parser |-> p, padding |-> b] :
            p \in Leaves("parser"), b \in Leaves("padding")}

ChoiceParsers ==
    {[k |-> c, parser_a |-> a, parser_b |-> b] :
        c \in {"Or", "AndIs"}, a \in Leaves("a"), b \in Leaves("b")}
    \cup {[k |-> "RecoverWith", parser |-> p, fallback |-> f] :
            p \in Leaves("parser"), f \in Leaves("fallback")}
    \cup {[k |-> c, parser |-> p] :
            c \in {"OrNot", "Not", "Rewind"}, p \in Leaves("parser")}
    \cup {[k |-> "OrElse", parser |-> p, or_else |-> f] :
            p \in Leaves("parser"), f \in {"recover", "fail"}}

SeparatedByParsers ==
    {SeparatedBy(ListItem, Sep, n, m, l, t) :
        n \in Counts, m \in AtMosts, l \in BOOLEAN, t \in BOOLEAN}

RepetitionParsers ==
    {Repeated(p, n, m) : p \in Units, n \in Counts, m \in AtMosts}
    \cup SeparatedByParsers
    \cup {RepeatedExactly(Item, c, N) : c \in {"unit", "array"}, N \in Counts}
    \cup {SeparatedByExactly(Item, Sep, N, l, t) :
            N \in Counts, l \in BOOLEAN, t \in BOOLEAN}

Parsers == TransformParsers \cup SequenceParsers \cup ChoiceParsers \cup RepetitionParsers

(***************************************************************************)
(* Actions                                                                 *)
(***************************************************************************)
Outcome(r) == [ok |-> r.ok, panic |-> r.panic, pos |-> r.st.pos]

\* One call of parser.go::<M>(inp), and the same call in the other mode.
Call ==
    /\ pc = "ready"
    /\ \E M \in Modes :
          LET r == Go(M, parser, inp)
          IN /\ mode' = M
             /\ start' = inp.pos
             /\ res' = [ok |-> r.ok, panic |-> r.panic, out |-> r.out, err |-> r.err]
             /\ inp' = r.st
             /\ twin' = Outcome(Go(Other(M), parser, inp))
    /\ pc' = "done"
    /\ UNCHANGED <<input, parser, frame>>

FilterGo == parser.k = "Filter" /\ Call
MapGo == parser.k = "Map" /\ Call
ToGo == parser.k = "To" /\ Call
ThenGo == parser.k = "Then" /\ Call
IgnoreThenGo == parser.k = "IgnoreThen" /\ Call
ThenIgnoreGo == parser.k = "ThenIgnore" /\ Call
ThenWithGo == parser.k = "ThenWith" /\ Call
DelimitedByGo == parser.k = "DelimitedBy" /\ Call
PaddedByGo == parser.k = "PaddedBy" /\ Call
OrGo == parser.k = "Or" /\ Call
RecoverWithGo == parser.k = "RecoverWith" /\ Call
RepeatedGo == parser.k = "Repeated" /\ Call
SeparatedByGo == parser.k = "SeparatedBy" /\ Call
OrNotGo == parser.k = "OrNot" /\ Call
NotGo == parser.k = "Not" /\ Call
AndIsGo == parser.k = "AndIs" /\ Call
RepeatedExactlyGo == parser.k = "RepeatedExactly" /\ Call
SeparatedByExactlyGo == parser.k = "SeparatedByExactly" /\ Call
RewindGo == parser.k = "Rewind" /\ Call
OrElseGo == parser.k = "OrElse" /\ Call

NoResult == [ok |-> FALSE, panic |-> FALSE, out |-> None, err |-> None]
NoOutcome == [ok |-> FALSE, panic |-> FALSE, pos |-> 0]
\* No loop is running.
NoFrame == [count |-> 0, output |-> None]

\* The caller goes on from where the call left the cursor, with a fresh log.
Continue ==
    /\ pc = "done"
    /\ ~res.panic
    /\ pc' = "ready"
    /\ inp' = NewInputRef(inp.pos)
    /\ mode' = "Check"
    /\ start' = inp.pos
    /\ res' = NoResult
    /\ twin' = NoOutcome
    /\ UNCHANGED <<input, parser, frame>>

InitWith(inputs, parsers) ==
    /\ input \in inputs
    /\ parser \in parsers
    /\ pc = "ready"
    /\ inp = NewInputRef(0)
    /\ mode = "Check"
    /\ start = 0
    /\ res = NoResult
    /\ twin = NoOutcome
    /\ frame = NoFrame

Init == InitWith(SeqsUpTo(Tokens, MaxLen), Parsers)

Next ==
    \/ FilterGo
    \/ MapGo
    \/ ToGo
    \/ ThenGo
    \/ IgnoreThenGo
    \/ ThenIgnoreGo
    \/ ThenWithGo
    \/ DelimitedByGo
    \/ PaddedByGo
    \/ OrGo
    \/ RecoverWithGo
    \/ RepeatedGo
    \/ SeparatedByGo
    \/ OrNotGo
    \/ NotGo
    \/ AndIsGo
    \/ RepeatedExactlyGo
    \/ SeparatedByExactlyGo
    \/ RewindGo
    \/ OrElseGo
    \/ Continue

Spec == Init /\ [][Next]_vars

(***************************************************************************)
(* Separated lists over inputs with two kinds of item                      *)
(***************************************************************************)
ListCounts == 0..MaxListCount

ListParsers ==
    {SeparatedBy(ListItem, Sep, n, m, l, t) :
        n \in ListCounts, m \in {None} \cup {Some(c) : c \in ListCounts},
        l \in BOOLEAN, t \in BOOLEAN}

InitList == InitWith(SeqsUpTo(ListTokens, MaxList), ListParsers)

NextList ==
    \/ SeparatedByGo
    \/ Continue

SpecList == InitList /\ [][NextList]_vars

(***************************************************************************)
(* text.rs: characters and text::ascii::ident                              *)
(***************************************************************************)
AsciiLetters == {"a"}
AsciiDigits == {"0", "7"}
AsciiChars == AsciiLetters \cup AsciiDigits \cup {"_", "."}

\* Char::to_ascii
to_ascii(c) == IF c \in AsciiChars THEN Some(c) ELSE None

\* u8::is_ascii_alphabetic
is_ascii_alphabetic(i) == i \in AsciiLetters

\* |c| c.to_ascii().map(|i| i.is_ascii_alphabetic() || i == b'_').unwrap_or(false)
IdentChar(c) ==
    IF to_ascii(c) = None THEN FALSE
    ELSE is_ascii_alphabetic(to_ascii(c)[1]) \/ to_ascii(c)[1] = "_"

\* any().try_map(..).then(select! { .. }.repeated()).to_slice()
ascii_ident ==
    [k |-> "MapSlice",
     parser |-> [k |-> "Then",
                 parser_a |-> [k |-> "TryMap", parser |-> AnyTok("any"),
                               mapper |-> {c \in Chars : IdentChar(c)}],
                 parser_b |-> Repeated(OneOf("select", {c \in Chars : IdentChar(c)}),
                                       0, None)]]

IdentGo == parser = ascii_ident /\ Call

(***************************************************************************)
(* text.rs: text::int                                                      *)
(***************************************************************************)
Radices == {10, 16}

\* char::is_digit(radix)
is_digit(c, radix) == c \in AsciiDigits \/ (radix = 16 /\ c = "a")

\* Char::digit_zero
digit_zero == "0"

\* .ignored(): To with the unit value
Ignored(p) == [k |-> "To", parser |-> p, to |-> << >>]

\* Mutant: the first digit may be zero.
int_zero_first(radix) ==
    [k |-> "MapSlice",
     parser |-> [k |-> "Or",
                 parser_a |->
                     Ignored([k |-> "Then",
                              parser_a |-> [k |-> "TryMap", parser |-> AnyTok("a"),
                                            mapper |-> {c \in Chars : is_digit(c, radix)}],
                              parser_b |-> Repeated(
                                  OneOf("select", {c \in Chars : is_digit(c, radix)}),
                                  0, None)]),
                 parser_b |-> Ignored(Just("b", <<digit_zero>>))]]

\* any().try_map(..).then(select! { .. }.repeated()).ignored()
\*     .or(just(digit_zero()).ignored()).to_slice()
int(radix) ==
    [k |-> "MapSlice",
     parser |-> [k |-> "Or",
                 parser_a |->
                     Ignored([k |-> "Then",
                              parser_a |-> [k |-> "TryMap", parser |-> AnyTok("a"),
                                            mapper |-> {c \in Chars :
                                                is_digit(c, radix) /\ c # digit_zero}],
                              parser_b |-> Repeated(
                                  OneOf("select", {c \in Chars : is_digit(c, radix)}),
                                  0, None)]),
                 parser_b |-> Ignored(Just("b", <<digit_zero>>))]]

IntParsers == {int(radix) : radix \in Radices}

IntGo == parser \in IntParsers /\ Call

(***************************************************************************)
(* text.rs: text::newline over char input                                  *)
(***************************************************************************)
\* Line feed, carriage return, vertical tab, form feed, next line, line
\* separator, paragraph separator, and a letter.
LineChars == {"LF", "CR", "VT", "FF", "NEL", "LS", "PS", "a"}

\* Char for char::is_newline
is_newline(c) == c \in {"LF", "CR", "VT", "FF", "NEL", "LS", "PS"}

\* Mutant: the single newline character is tried before "\r\n".
newline_single_first ==
    [k |-> "Or",
     parser_a |-> Ignored([k |-> "Filter", parser |-> AnyTok("b"),
                           filter |-> {c \in LineChars : is_newline(c)}]),
     parser_b |-> Ignored(Just("a", <<"CR", "LF">>))]

\* just("\r\n").ignored().or(any().filter(I::Token::is_newline).ignored())
newline ==
    [k |-> "Or",
     parser_a |-> Ignored(Just("a", <<"CR", "LF">>)),
     parser_b |-> Ignored([k |-> "Filter", parser |-> AnyTok("b"),
                           filter |-> {c \in LineChars : is_newline(c)}])]

NewlineGo == parser = newline /\ Call

InitText ==
    \/ InitWith(SeqsUpTo(Chars, MaxText), {ascii_ident} \cup IntParsers)
    \/ InitWith(SeqsUpTo(LineChars, MaxLine), {newline})

NextText ==
    \/ IdentGo
    \/ IntGo
    \/ NewlineGo
    \/ Continue

SpecText == InitText /\ [][NextText]_vars

(***************************************************************************)
(* text.rs: text::unicode::ident, text::ascii::keyword and                 *)
(* text::unicode::keyword                                                  *)
(***************************************************************************)
\* unicode_ident::is_xid_start, unicode_ident::is_xid_continue
XidStart == {"a", "lambda"}
XidContinue == XidStart \cup AsciiDigits \cup {"_"}

\* Char for char::is_ident_start
is_ident_start(c) == c \in XidStart \/ c = "_"

\* Char for char::is_ident_continue
is_ident_continue(c) == c \in XidContinue

\* any().try_map(..).then(select! { .. }.repeated()).to_slice()
unicode_ident ==
    [k |-> "MapSlice",
     parser |-> [k |-> "Then",
                 parser_a |-> [k |-> "TryMap", parser |-> AnyTok("any"),
                               mapper |-> {c \in Chars : is_ident_start(c)}],
                 parser_b |-> Repeated(
                     OneOf("select", {c \in Chars : is_ident_continue(c)}), 0, None)]]

\* ident().try_map(move |s, span| if &s == keyword.borrow() { Ok(()) } else { Err(..) })
\*     .to_slice()
keyword(ident, kw) ==
    [k |-> "MapSlice",
     parser |-> [k |-> "TryMap", parser |-> ident, mapper |-> {kw}],
     keyword |-> kw]

\* The characters of the keywords and of the inputs they are run on: one
\* decimal digit is enough.
KeywordChars == Chars \ {digit_zero}

\* The keywords a caller may ask for: the identifiers of the module as its
\* documentation defines them.
AsciiKeywords ==
    {s \in SeqsUpTo(KeywordChars, MaxKeyword) :
        /\ Len(s) >= 1
        /\ s[1] \in AsciiLetters \cup {"_"}
        /\ \A j \in 2..Len(s) : s[j] \in AsciiLetters \cup AsciiDigits \cup {"_"}}

UnicodeKeywords ==
    {s \in SeqsUpTo(KeywordChars, MaxKeyword) :
        /\ Len(s) >= 1
        /\ is_ident_start(s[1])
        /\ \A j \in 2..Len(s) : is_ident_continue(s[j])}

AsciiKeywordParsers == {keyword(ascii_ident, kw) : kw \in AsciiKeywords}
UnicodeKeywordParsers == {keyword(unicode_ident, kw) : kw \in UnicodeKeywords}

AsciiKeywordGo == parser \in AsciiKeywordParsers /\ Call
UnicodeKeywordGo == parser \in UnicodeKeywordParsers /\ Call

InitKeyword ==
    InitWith(SeqsUpTo(KeywordChars, MaxText),
             AsciiKeywordParsers \cup UnicodeKeywordParsers)

NextKeyword ==
    \/ AsciiKeywordGo
    \/ UnicodeKeywordGo
    \/ Continue

SpecKeyword == InitKeyword /\ [][NextKeyword]_vars

(***************************************************************************)
(* Containers: `input` holds the items to push, inp.pos counts the pushes  *)
(* made and res.out is the container.                                      *)
(***************************************************************************)
MaxPush == 3
Keys == {"x", "y"}
Values == {1, 2}
\* The items pushed: (key, value) pairs.
PushItems == Keys \X Values
Containers == {[k |-> "Container", c |-> c] : c \in {"unit", "Vec", "map", "set"}}

\* output.push(item) with the next item
Push ==
    /\ pc = "ready"
    /\ inp.pos < Len(input)
    /\ res' = [res EXCEPT !.out = Container_push(parser.c, @, input[inp.pos + 1])]
    /\ inp' = [inp EXCEPT !.pos = @ + 1]
    /\ UNCHANGED <<input, parser, pc, mode, start, twin, frame>>

PushUnit == parser.c = "unit" /\ Push
PushVec == parser.c = "Vec" /\ Push
PushMap == parser.c = "map" /\ Push
PushSet == parser.c = "set" /\ Push

InitContainer ==
    /\ input \in SeqsUpTo(PushItems, MaxPush)
    /\ parser \in Containers
    /\ pc = "ready"
    /\ inp = NewInputRef(0)
    /\ mode = "Emit"
    /\ start = 0
    /\ res = [NoResult EXCEPT !.ok = TRUE, !.out = Container_default(parser.c)]
    /\ twin = NoOutcome
    /\ frame = NoFrame

NextContainer ==
    \/ PushUnit
    \/ PushVec
    \/ PushMap
    \/ PushSet

SpecContainer == InitContainer /\ [][NextContainer]_vars

(***************************************************************************)
(* Repeated::go, one iteration of its loop at a time.  The container is    *)
(* the default one of repeated(), the unit; inp.ev holds the events of the *)
(* last iteration; count is a usize of CountWidth bits that wraps.         *)
(***************************************************************************)
CountWidth == 3
UsizeRange == 2 ^ CountWidth

\* Children: two that consume what they match, and two that can succeed
\* without consuming a token (just of the empty sequence, or_not).
LoopItems ==
    {Just("item", s) : s \in {<< >>, <<"-">>, <<"-", ",">>}}
    \cup {[k |-> "OrNot", parser |-> Just("item", <<"-">>)]}

LoopParsers == {Repeated(p, n, m) : p \in LoopItems, n \in Counts, m \in AtMosts}

\* let mut count = 0; let mut output = M::bind(|| C::default());
RepeatedEnter ==
    /\ pc = "ready"
    /\ parser.k = "Repeated"
    /\ \E M \in Modes :
          /\ mode' = M
          /\ frame' = [count |-> 0, output |-> MBind(M, Container_default("unit"))]
    /\ start' = inp.pos
    /\ pc' = "loop"
    /\ UNCHANGED <<input, parser, inp, res, twin>>

\* self.parser.go::<M>(inp), at the head of an iteration
RepeatedItem == Go(mode, parser.parser, [inp EXCEPT !.ev = << >>])

\* The Ok arm: push, count, and the test of at_most.
RepeatedOk ==
    /\ pc = "loop"
    /\ RepeatedItem.ok
    /\ LET r == RepeatedItem
           output1 == IF mode = "Emit"
                      THEN Some(Container_push("unit", frame.output[1], r.out[1]))
                      ELSE None
           count1 == (frame.count + 1) % UsizeRange
       IN /\ frame' = [count |-> count1, output |-> output1]
          /\ inp' = r.st
          /\ IF parser.at_most # None /\ count1 >= parser.at_most[1]
             THEN /\ pc' = "done"
                  /\ res' = [ok |-> TRUE, panic |-> FALSE, out |-> output1, err |-> None]
             ELSE UNCHANGED <<pc, res>>
    /\ UNCHANGED <<input, parser, mode, start, twin>>

\* The Err arm: rewind, and the test of at_least.
RepeatedErr ==
    /\ pc = "loop"
    /\ ~RepeatedItem.ok
    /\ LET before == save(inp)
           r == RepeatedItem
       IN /\ inp' = rewind(r.st, before)
          /\ res' = IF frame.count >= parser.at_least
                    THEN [ok |-> TRUE, panic |-> FALSE, out |-> frame.output, err |-> None]
                    ELSE [ok |-> FALSE, panic |-> FALSE, out |-> None, err |-> r.err]
    /\ pc' = "done"
    /\ UNCHANGED <<input, parser, mode, start, twin, frame>>

InitLoop == InitWith(SeqsUpTo(Tokens, MaxLen), LoopParsers)

NextLoop ==
    \/ RepeatedEnter
    \/ RepeatedOk
    \/ RepeatedErr

SpecLoop == InitLoop /\ [][NextLoop]_vars

\* A call of go that has started keeps running: there is no cancellation.
FairLoop == SpecLoop /\ WF_vars(NextLoop)

(***************************************************************************)
(* The state-aware combinators, over an input reference with a user state  *)
(***************************************************************************)
MaxState == 1
UserStates == 0..MaxState

\* The input reference of a parse with user state s.
NewInputRefWithState(pos, s) ==
    [pos |-> pos, emitted |-> << >>, ev |-> << >>, state |-> s]

StateParsers ==
    {[k |-> "MapWithState", parser |-> p, mapper |-> "f"] : p \in Leaves("parser")}
    \cup {[k |-> "TryMapWithState", parser |-> p, mapper |-> f] :
            p \in Leaves("parser"), f \in SUBSET {<<"-">>, <<",">>}}

\* The calls of the mapper in the history of st.
MapperCalls(st) == Len(SelectSeq(st.ev, LAMBDA e : e.e = "mapper"))

StateOutcome(r) ==
    [ok |-> r.ok, panic |-> r.panic, pos |-> r.st.pos, state |-> r.st.state,
     calls |-> MapperCalls(r.st)]

\* One call of parser.go::<M>(inp), and the same call in the other mode from
\* the same cursor and the same user state.
CallWithState ==
    /\ pc = "ready"
    /\ \E M \in Modes :
          LET r == Go(M, parser, inp)
          IN /\ mode' = M
             /\ start' = inp.pos
             /\ res' = [ok |-> r.ok, panic |-> r.panic, out |-> r.out, err |-> r.err]
             /\ inp' = r.st
             /\ twin' = StateOutcome(Go(Other(M), parser, inp))
    /\ pc' = "done"
    /\ UNCHANGED <<input, parser, frame>>

MapWithStateGo == parser.k = "MapWithState" /\ CallWithState
TryMapWithStateGo == parser.k = "TryMapWithState" /\ CallWithState

InitState ==
    /\ input \in SeqsUpTo(Tokens, MaxLen)
    /\ parser \in StateParsers
    /\ pc = "ready"
    /\ \E s \in UserStates : inp = NewInputRefWithState(0, s)
    /\ mode = "Check"
    /\ start = 0
    /\ res = NoResult
    /\ twin = NoOutcome
    /\ frame = NoFrame

NextState ==
    \/ MapWithStateGo
    \/ TryMapWithStateGo

SpecState == InitState /\ [][NextState]_vars

(***************************************************************************)
(* Reading the history of the last call                                    *)
(***************************************************************************)
Done == pc = "done"
Returned == Done /\ ~res.panic
Succeeded == Returned /\ res.ok
Failed == Returned /\ ~res.ok

\* The invocations of the child tagged `tag`, in order.
CallsOf(tag) == SelectSeq(inp.ev, LAMBDA e : e.e = "leaf" /\ e.tag = tag)
OkCallsOf(tag) == SelectSeq(inp.ev, LAMBDA e : e.e = "leaf" /\ e.tag = tag /\ e.ok)

\* The number of items accumulated (the final value of count).
Counted == Len(SelectSeq(inp.ev, LAMBDA e : e.e = "count"))

Min(a, b) == IF a <= b THEN a ELSE b
Max(a, b) == IF a >= b THEN a ELSE b

\* Whether the tokens of seq stand at position pos of the input.
StandsAt(seq, pos) ==
    /\ pos + Len(seq) <= Len(input)
    /\ SubSeq(input, pos + 1, pos + Len(seq)) = seq

\* The number of consecutive copies of seq that stand at pos.
RECURSIVE UnitsAt(_, _)
UnitsAt(seq, pos) == IF StandsAt(seq, pos) THEN 1 + UnitsAt(seq, pos + Len(seq)) ELSE 0

(***************************************************************************)
(* C1  Mode equivalence: the call in Check mode and the call in Emit mode, *)
(* from the same cursor, both return, end at the same cursor, and both     *)
(* succeed or both fail.                                                   *)
(***************************************************************************)
C1_ModeEquivalence ==
    Done => /\ twin.ok = res.ok
            /\ twin.panic = res.panic
            /\ twin.pos = inp.pos

\* The two modes do agree wherever the arity of the exact repetitions is
\* at least one.
C1_ModeEquivalenceFromArityOne ==
    (Done /\ ~(parser.k \in {"RepeatedExactly", "SeparatedByExactly"} /\ parser.N = 0))
        => /\ ~res.panic
           /\ C1_ModeEquivalence

(***************************************************************************)
(* C2  Repeated bounds: over an input that starts with exactly k units,    *)
(* Repeated with at_least = n and at_most = m succeeds iff n <= k, and on  *)
(* success it has consumed min(k, m) units.                                *)
(***************************************************************************)
C2_RepeatedBounds ==
    (Returned /\ parser.k = "Repeated") =>
        LET unit == parser.parser.seq
            k == UnitsAt(unit, start)
            wanted == IF parser.at_most = None THEN k ELSE Min(k, parser.at_most[1])
        IN /\ res.ok <=> parser.at_least <= k
           /\ res.ok => inp.pos = start + wanted * Len(unit)

\* C2 holds of every Repeated whose bounds
\* satisfy 1 <= at_most and at_least <= at_most.
C2_RepeatedBoundsOrdered ==
    (parser.k = "Repeated"
        /\ (parser.at_most = None
               \/ (1 <= parser.at_most[1] /\ parser.at_least <= parser.at_most[1])))
        => C2_RepeatedBounds

(***************************************************************************)
(* C3  Repeated fails zero-consuming: when Repeated fails, the cursor is   *)
(* where it was when Repeated was entered.                                 *)
(***************************************************************************)
C3_RepeatedFailsAtEntry ==
    (Failed /\ parser.k = "Repeated") => inp.pos = start

\* C3 as amended: when Repeated fails, fewer than at_least units were
\* accumulated and the cursor is where the failing attempt began, that is
\* right after the units accumulated so far (the entry position only when
\* there is none).
C3_RepeatedFailsAtLastCheckpoint ==
    (Failed /\ parser.k = "Repeated") =>
        LET attempts == CallsOf("item")
            failing == attempts[Len(attempts)]
        IN /\ Counted < parser.at_least
           /\ ~failing.ok
           /\ inp.pos = failing.at
           /\ inp.pos = start + Counted * Len(parser.parser.seq)

C3_Witness ==
    /\ Failed /\ parser.k = "Repeated"
    /\ Counted >= 1
    /\ inp.pos > start

(***************************************************************************)
(* Reading a separated list                                                *)
(***************************************************************************)
Last(seq) == seq[Len(seq)]

\* The tokens taken by the successful item attempts, in input order.
ItemsParsed ==
    LET oks == OkCallsOf("item")
    IN [i \in 1..Len(oks) |-> input[oks[i].at + 1]]

IsItem(pos) == pos < Len(input) /\ input[pos + 1] \in ListItem.set
IsSep(pos) == StandsAt(Sep.seq, pos)

\* The number of items the input holds from pos on: item (sep item)*.
RECURSIVE MoreItems(_)
MoreItems(pos) == IF IsSep(pos) /\ IsItem(pos + 1) THEN 1 + MoreItems(pos + 2) ELSE 0
ItemsAt(pos) == IF IsItem(pos) THEN 1 + MoreItems(pos + 1) ELSE 0

IsList == parser.k = "SeparatedBy"

(***************************************************************************)
(* C4  SeparatedBy leaves the last separator: without allow_leading and    *)
(* allow_trailing, a success with at least one item ends right after the   *)
(* last accumulated item (a separator not followed by an item is not left  *)
(* consumed), and the accumulator holds the items parsed, in input order.  *)
(***************************************************************************)
C4_LeavesLastSeparator ==
    (Succeeded /\ IsList /\ ~parser.allow_leading /\ ~parser.allow_trailing
               /\ Counted >= 1)
        => /\ inp.pos = Last(OkCallsOf("item")).end
           /\ \A i \in 1..Len(inp.ev) :
                 (inp.ev[i].e = "leaf" /\ inp.ev[i].tag = "sep" /\ inp.ev[i].ok)
                     => \/ inp.ev[i].at = inp.pos
                        \/ /\ i < Len(inp.ev)
                           /\ inp.ev[i + 1].e = "leaf" /\ inp.ev[i + 1].tag = "item"
                           /\ inp.ev[i + 1].ok /\ inp.ev[i + 1].at = inp.ev[i].end
           /\ Counted = Len(ItemsParsed)
           /\ mode = "Emit" => res.out = Some(ItemsParsed)

\* A separator was taken and given back: the cursor stands on it.
C4_Witness ==
    /\ Succeeded /\ IsList /\ ~parser.allow_leading /\ ~parser.allow_trailing
    /\ mode = "Emit"
    /\ Counted >= 2
    /\ res.out[1][1] # res.out[1][2]
    /\ IsSep(inp.pos)
    /\ \E i \in 1..Len(inp.ev) :
          inp.ev[i].e = "leaf" /\ inp.ev[i].tag = "sep" /\ inp.ev[i].ok
              /\ inp.ev[i].at = inp.pos

\* The same call with one flag cleared, from cursor pos.
Without(flag, pos) ==
    Go(mode, [parser EXCEPT ![flag] = FALSE], NewInputRef(pos))

\* Where the first item is looked for: after the leading separator, if it is
\* allowed and there.
FirstItemAt == IF parser.allow_leading /\ IsSep(start) THEN start + 1 ELSE start

(***************************************************************************)
(* C5  SeparatedBy with allow_trailing: after the last accumulated item    *)
(* one separator is consumed if it is there, and its absence is no error;  *)
(* the accumulated items are those accumulated without the flag; and the   *)
(* parser fails when the input holds fewer than at_least items, even if it *)
(* ends with a separator.                                                  *)
(***************************************************************************)
C5_AllowTrailing ==
    (Returned /\ IsList /\ parser.allow_trailing)
        => LET plain == Without("allow_trailing", start)
           IN /\ res.out = plain.out
              /\ (res.ok /\ Counted >= 1)
                    => LET last == Last(OkCallsOf("item")).end
                       IN inp.pos = IF IsSep(last) THEN last + 1 ELSE last
              /\ ItemsAt(FirstItemAt) < parser.at_least => ~res.ok

\* What holds of allow_trailing: the flag changes neither the success nor
\* the items, and adds one separator to what a non-empty list consumes.
C5_TrailingSeparatorOnly ==
    (Returned /\ IsList /\ parser.allow_trailing)
        => LET plain == Without("allow_trailing", start)
           IN /\ res.out = plain.out
              /\ res.ok = plain.ok
              /\ (res.ok /\ Counted >= 1)
                    => LET last == Last(OkCallsOf("item")).end
                       IN /\ plain.st.pos = last
                          /\ inp.pos = IF IsSep(last) THEN last + 1 ELSE last
              /\ ~(res.ok /\ Counted >= 1) => inp.pos = plain.st.pos

(***************************************************************************)
(* C6  SeparatedBy enforces at_least: for every at_least, at_most, flag    *)
(* setting and input, a success holds at least at_least items.             *)
(***************************************************************************)
C6_EnforcesAtLeast ==
    (Succeeded /\ IsList)
        => /\ Counted >= parser.at_least
           /\ mode = "Emit" => Len(res.out[1]) >= parser.at_least

\* at_least is enforced whenever at_most does not stop the loop below it.
C6_EnforcesAtLeastBelowAtMost ==
    (IsList /\ (parser.at_most = None \/ parser.at_least <= Max(2, parser.at_most[1])))
        => C6_EnforcesAtLeast

C7_WitnessWithout ==
    /\ Failed /\ IsList /\ ~parser.allow_leading
    /\ IsSep(start) /\ IsItem(start + 1)
    /\ parser.at_least > 0

(***************************************************************************)
(* Reading the buffer operations of an exact repetition                    *)
(***************************************************************************)
\* The slots on which the operation op was performed, in order.
Slots(op) ==
    LET es == SelectSeq(inp.ev, LAMBDA e : e.e = op)
    IN [j \in 1..Len(es) |-> es[j].i]

\* 0, 1, .., n - 1
UpTo(n) == [j \in 1..n |-> j - 1]

(***************************************************************************)
(* C8  Exact-arity safety: RepeatedExactly<N> over fewer than N matchable  *)
(* units fails, and then every value written (slots 0..i-1, i successful   *)
(* items) is released exactly once, no slot of index >= i is read or       *)
(* released, and take is not called; when it succeeds, take is called      *)
(* exactly once with all N slots initialized and drop_before releases      *)
(* nothing.                                                                *)
(***************************************************************************)
C8_ExactAritySafety ==
    (Done /\ parser.k = "RepeatedExactly")
        => LET i == Len(OkCallsOf("item"))
               held == mode = "Emit" /\ parser.c = "array"
           IN /\ UnitsAt(parser.parser.seq, start) < parser.N => Failed
              /\ Failed
                    => /\ Slots("write") = IF held THEN UpTo(i) ELSE << >>
                       /\ Slots("drop") = Slots("write")
                       /\ Slots("drop_uninit") = << >>
                       /\ Slots("take") = << >> /\ Slots("take_uninit") = << >>
              /\ Succeeded
                    => /\ i = parser.N
                       /\ Slots("write") = IF held THEN UpTo(parser.N) ELSE << >>
                       /\ Slots("take") = IF held THEN <<parser.N>> ELSE << >>
                       /\ held => Last(inp.ev).e = "take"
                       /\ Slots("take_uninit") = << >>
                       /\ Slots("drop") = << >> /\ Slots("drop_uninit") = << >>

\* A failure after a value was written into a buffer of two slots.
C8_Witness ==
    /\ Failed /\ parser.k = "RepeatedExactly"
    /\ mode = "Emit" /\ parser.c = "array" /\ parser.N = 2
    /\ Slots("write") = <<0>>
    /\ Slots("drop") = <<0>>

(***************************************************************************)
(* C9  Choice bias: in Or(A, B), whenever A succeeds at the entry          *)
(* position, B is never invoked, and the result and the final cursor of    *)
(* Or are those of A.                                                      *)
(***************************************************************************)
C9_ChoiceBias ==
    (Done /\ parser.k = "Or")
        => LET a == Go(mode, parser.parser_a, NewInputRef(start))
           IN a.ok => /\ CallsOf("b") = << >>
                      /\ res = [ok |-> a.ok, panic |-> a.panic, out |-> a.out, err |-> a.err]
                      /\ inp = a.st

\* A succeeded where B, which accepts something else, would have too.
C9_Witness ==
    /\ Succeeded /\ parser.k = "Or"
    /\ CallsOf("a")[1].ok
    /\ StandsAt(parser.parser_b.seq, start)
    /\ parser.parser_b.seq # parser.parser_a.seq
    /\ mode = "Emit"

(***************************************************************************)
(* C10  text::ascii::ident accepts exactly the C-style identifiers:        *)
(* applied to a whole input it succeeds, with the whole input as its       *)
(* slice, iff the input matches [a-zA-Z_][a-zA-Z0-9_]*.                    *)
(***************************************************************************)
\* [a-zA-Z_][a-zA-Z0-9_]*
MatchesCIdent(s) ==
    /\ Len(s) >= 1
    /\ s[1] \in AsciiLetters \cup {"_"}
    /\ \A j \in 2..Len(s) : s[j] \in AsciiLetters \cup AsciiDigits \cup {"_"}

\* The call took the whole input and, in Emit mode, returned it.
AcceptedWhole ==
    /\ Succeeded
    /\ inp.pos = Len(input)
    /\ mode = "Emit" => res.out = Some(input)

C10_IdentAcceptsCIdentifiers ==
    (Done /\ parser = ascii_ident /\ start = 0)
        => (AcceptedWhole <=> MatchesCIdent(input))

\* What ident accepts whole is [a-zA-Z_]+: no digit after the first
\* character.
C10_IdentAcceptsLettersOnly ==
    (Done /\ parser = ascii_ident /\ start = 0)
        => (AcceptedWhole <=> /\ MatchesCIdent(input)
                              /\ \A j \in 1..Len(input) : input[j] \notin AsciiDigits)

(***************************************************************************)
(* C11  text::int(radix) applied to a whole input succeeds, returning the  *)
(* whole input, iff the input is a non-empty sequence of digits of that    *)
(* radix whose first digit is non-zero or whose length is one: "0" is      *)
(* accepted, a longer input with a leading zero is rejected.               *)
(***************************************************************************)
MatchesInt(s, radix) ==
    /\ Len(s) >= 1
    /\ \A j \in 1..Len(s) : is_digit(s[j], radix)
    /\ s[1] # "0" \/ Len(s) = 1

C11_IntAcceptsIntegers ==
    \A radix \in Radices :
        (Done /\ parser = int(radix) /\ start = 0)
            => (AcceptedWhole <=> MatchesInt(input, radix))

\* A leading zero followed by a digit: only the zero is taken.
C11_Witness ==
    /\ Succeeded /\ parser = int(10) /\ start = 0 /\ mode = "Emit"
    /\ input = <<"0", "7">>
    /\ res.out = Some(<<"0">>)
    /\ inp.pos = 1

\* A hexadecimal integer is taken whole.
C11_WitnessHex ==
    /\ Succeeded /\ parser = int(16) /\ start = 0 /\ mode = "Emit"
    /\ input = <<"a", "0">>
    /\ res.out = Some(input)

(***************************************************************************)
(* C12  keyword(k), for every k that is a valid identifier of the module:  *)
(* where the input starts with k the parser succeeds consuming exactly k   *)
(* when the next character is not an identifier character (or the input    *)
(* ends), and fails when k is followed by further identifier characters;   *)
(* it fails when the identifier at the cursor differs from k.              *)
(***************************************************************************)
\* The identifier characters of the two modules, as documented:
\* [a-zA-Z0-9_] and XID_Continue.
AsciiIdentifierChar(c) == c \in AsciiLetters \cup AsciiDigits \cup {"_"}
UnicodeIdentifierChar(c) == is_ident_continue(c)

\* The keyword stands at the cursor and an identifier character follows it.
FollowedBy(IdentifierChar(_)) ==
    LET after == start + Len(parser.keyword)
    IN after < Len(input) /\ IdentifierChar(input[after + 1])

KeywordAt(IdentifierChar(_)) ==
    LET kw == parser.keyword
    IN /\ (StandsAt(kw, start) /\ ~FollowedBy(IdentifierChar))
            => /\ Succeeded
               /\ inp.pos = start + Len(kw)
               /\ mode = "Emit" => res.out = Some(kw)
       /\ (StandsAt(kw, start) /\ FollowedBy(IdentifierChar)) => Failed
       /\ ~StandsAt(kw, start) => Failed

C12_Keyword ==
    /\ (Done /\ parser \in AsciiKeywordParsers) => KeywordAt(AsciiIdentifierChar)
    /\ (Done /\ parser \in UnicodeKeywordParsers) => KeywordAt(UnicodeIdentifierChar)

\* The claim holds of unicode::keyword, and of ascii::keyword when digits are
\* left out of its identifiers.
C12_KeywordWithoutAsciiDigits ==
    /\ (Done /\ parser \in UnicodeKeywordParsers) => KeywordAt(UnicodeIdentifierChar)
    /\ (Done /\ parser \in AsciiKeywordParsers
              /\ \A j \in 1..Len(parser.keyword) : parser.keyword[j] \notin AsciiDigits)
          => KeywordAt(IdentChar)

\* ascii::keyword fails on its own keyword when the keyword holds a digit.
C12_WitnessDigit ==
    /\ Failed /\ parser = keyword(ascii_ident, <<"a", "7">>)
    /\ input = <<"a", "7">> /\ start = 0

(***************************************************************************)
(* C13  text::newline over char input succeeds on each of LF, CR, CR LF,   *)
(* VT, FF, U+0085, U+2028, U+2029 taken as a whole input; on an input      *)
(* starting with CR LF it consumes both characters, on a CR not followed   *)
(* by LF only the CR; on an input whose first character is not a newline   *)
(* character it fails.                                                     *)
(***************************************************************************)
NewlineSequences ==
    {<<"LF">>, <<"CR">>, <<"CR", "LF">>, <<"VT">>, <<"FF">>, <<"NEL">>, <<"LS">>, <<"PS">>}

C13_Newline ==
    (Done /\ parser = newline)
        => /\ (start = 0 /\ input \in NewlineSequences)
                => /\ Succeeded /\ inp.pos = Len(input)
                   /\ mode = "Emit" => res.out = Some(<< >>)
           /\ StandsAt(<<"CR", "LF">>, start)
                => Succeeded /\ inp.pos = start + 2
           /\ (StandsAt(<<"CR">>, start) /\ ~StandsAt(<<"CR", "LF">>, start))
                => Succeeded /\ inp.pos = start + 1
           /\ (start < Len(input) /\ <<input[start + 1]>> \notin NewlineSequences)
                => Failed

\* CR LF is taken as one newline after "\r\n" was tried and matched.
C13_Witness ==
    /\ Succeeded /\ parser = newline /\ start = 0
    /\ input = <<"CR", "LF">>
    /\ inp.pos = 2
    /\ CallsOf("b") = << >>

\* A lone CR is taken by the second alternative after "\r\n" failed.
C13_WitnessLoneCR ==
    /\ Succeeded /\ parser = newline /\ start = 0
    /\ input = <<"CR", "a">>
    /\ inp.pos = 1
    /\ Len(CallsOf("b")) = 1

(***************************************************************************)
(* C14  ThenWith rewinds to its original start on any failure: if the      *)
(* first parser fails, or if it succeeds and the parser constructed from   *)
(* its output fails, the cursor on return equals the position at which     *)
(* ThenWith::go was entered.                                               *)
(***************************************************************************)
C14_ThenWithRewindsToStart ==
    (Failed /\ parser.k = "ThenWith") => inp.pos = start

\* What the code does: a failure of the first parser rewinds to the start,
\* a failure of the constructed parser to where the first parser ended.
C14_ThenWithRewindsToStage ==
    (Failed /\ parser.k = "ThenWith")
        => LET first == CallsOf("parser")[1]
           IN /\ ~first.ok => inp.pos = start /\ CallsOf("then") = << >>
              /\ first.ok => /\ Len(CallsOf("then")) = 1
                              /\ ~CallsOf("then")[1].ok
                              /\ inp.pos = first.end

\* The constructed parser failed and the first parser's input stays consumed.
C14_Witness ==
    /\ Failed /\ parser.k = "ThenWith"
    /\ CallsOf("parser")[1].ok
    /\ inp.pos > start

(***************************************************************************)
(* C15  Not is a pure negative lookahead: it runs its child in Check mode, *)
(* it succeeds (with unit output) iff the child fails, and whenever        *)
(* Not::go returns, with success or with failure, the cursor equals the    *)
(* position saved at entry.                                                *)
(***************************************************************************)
C15_NotConsumesNothing ==
    (Done /\ parser.k = "Not")
        => LET child == CallsOf("parser")
           IN /\ Returned
              /\ Len(child) = 1 /\ child[1].mode = "Check" /\ child[1].at = start
              /\ res.ok <=> ~child[1].ok
              /\ (res.ok /\ mode = "Emit") => res.out = Some(<< >>)
              /\ inp.pos = start

\* What the code does: a success leaves the cursor at the entry position, a
\* failure one token after it (at it, when the input ends there).
C15_NotFailsOneTokenOn ==
    (Done /\ parser.k = "Not")
        => LET child == CallsOf("parser")
           IN /\ Returned
              /\ Len(child) = 1 /\ child[1].mode = "Check" /\ child[1].at = start
              /\ res.ok <=> ~child[1].ok
              /\ (res.ok /\ mode = "Emit") => res.out = Some(<< >>)
              /\ res.ok => inp.pos = start
              /\ ~res.ok => /\ inp.pos = Min(start + 1, Len(input))
                             /\ res.err[1].pos = start

\* The child matched, Not failed and a token is consumed.
C15_Witness ==
    /\ Failed /\ parser.k = "Not"
    /\ CallsOf("parser")[1].ok
    /\ inp.pos = start + 1

(***************************************************************************)
(* C16  AndIs: both parsers start at the same position; the guard B is run *)
(* (in Check mode) only after A succeeded; if both succeed the final       *)
(* cursor is the position A ended at and the output is A's; if A fails or  *)
(* B fails the final cursor is the shared start position and the error     *)
(* returned is that of the parser that failed.                             *)
(***************************************************************************)
\* The parser run alone, in mode M, from the entry position.
Alone(M, p) == Go(M, p, NewInputRef(start))

C16_AndIs ==
    (Done /\ parser.k = "AndIs")
        => LET a == CallsOf("a")
               b == CallsOf("b")
               A == Alone(mode, parser.parser_a)
               B == Alone("Check", parser.parser_b)
           IN /\ Returned
              /\ Len(a) = 1 /\ a[1].at = start /\ a[1].mode = mode
              /\ inp.ev[1] = a[1]
              /\ IF a[1].ok
                 THEN /\ Len(b) = 1 /\ b[1].at = start /\ b[1].mode = "Check"
                      /\ IF b[1].ok
                         THEN /\ res.ok
                              /\ inp.pos = a[1].end
                              /\ res.out = A.out
                         ELSE /\ ~res.ok
                              /\ inp.pos = start
                              /\ res.err = B.err
                 ELSE /\ b = << >>
                      /\ ~res.ok
                      /\ inp.pos = start
                      /\ res.err = A.err

\* Both succeeded and the guard consumed more than A did.
C16_Witness ==
    /\ Succeeded /\ parser.k = "AndIs" /\ mode = "Emit"
    /\ CallsOf("b")[1].end > CallsOf("a")[1].end
    /\ inp.pos = CallsOf("a")[1].end

\* The guard failed after A succeeded.
C16_WitnessGuardFails ==
    /\ Failed /\ parser.k = "AndIs"
    /\ CallsOf("a")[1].ok
    /\ ~CallsOf("b")[1].ok

(***************************************************************************)
(* C17  RecoverWith: if the primary parser succeeds, the fallback is not   *)
(* run and nothing is emitted; if it fails, the fallback is run from the   *)
(* position RecoverWith was entered at; if the fallback succeeds, the      *)
(* primary's error is emitted exactly once and the fallback's output is    *)
(* returned as success; if the fallback fails too, the error returned is   *)
(* the primary's and nothing is emitted.                                   *)
(***************************************************************************)
C17_RecoverWith ==
    (Done /\ parser.k = "RecoverWith")
        => LET primary == CallsOf("parser")
               fallback == CallsOf("fallback")
               P == Alone(mode, parser.parser)
               F == Alone(mode, parser.fallback)
           IN /\ Returned
              /\ Len(primary) = 1 /\ primary[1].at = start
              /\ IF primary[1].ok
                 THEN /\ fallback = << >>
                      /\ inp.emitted = << >>
                      /\ res.ok /\ res.out = P.out
                      /\ inp.pos = primary[1].end
                 ELSE /\ Len(fallback) = 1 /\ fallback[1].at = start
                      /\ fallback[1].mode = mode
                      /\ IF fallback[1].ok
                         THEN /\ inp.emitted = <<P.err[1]>>
                              /\ res.ok /\ res.out = F.out
                              /\ inp.pos = fallback[1].end
                         ELSE /\ ~res.ok
                              /\ res.err = P.err
                              /\ inp.emitted = << >>

\* The primary failed past the entry position and the fallback recovered.
C17_Witness ==
    /\ Succeeded /\ parser.k = "RecoverWith"
    /\ ~CallsOf("parser")[1].ok
    /\ CallsOf("parser")[1].end > start
    /\ Len(inp.emitted) = 1
    /\ inp.emitted[1].by = {"parser"}

\* Both failed, at different positions: the error is the primary's.
C17_WitnessBothFail ==
    /\ Failed /\ parser.k = "RecoverWith"
    /\ Alone(mode, parser.parser).err # Alone(mode, parser.fallback).err
    /\ Alone(mode, parser.parser).err[1].pos < Alone(mode, parser.fallback).err[1].pos

(***************************************************************************)
(* C18  Or backtracks before the alternative: whenever B is invoked, the   *)
(* cursor equals the position at which Or::go was entered, whatever the    *)
(* failed A consumed; and when both fail, the single error returned is the *)
(* prioritize/merge combination of A's error and B's error.                *)
(***************************************************************************)
C18_OrBacktracks ==
    (Done /\ parser.k = "Or")
        => LET a == CallsOf("a")
               b == CallsOf("b")
               A == Alone(mode, parser.parser_a)
               B == Alone(mode, parser.parser_b)
           IN /\ Returned
              /\ Len(a) = 1 /\ a[1].at = start
              /\ ~a[1].ok => Len(b) = 1
              /\ b # << >> => /\ ~a[1].ok
                              /\ b[1].at = start
                              /\ b[1].mode = mode
              /\ (~a[1].ok /\ b[1].ok) => /\ res.ok /\ res.out = B.out
                                           /\ inp.pos = b[1].end
              /\ (~a[1].ok /\ ~b[1].ok)
                    => /\ ~res.ok
                       /\ res.err = Some(prioritize(A.err[1], B.err[1]))

\* A failed after consuming input, and B matched from the entry position.
C18_Witness ==
    /\ Succeeded /\ parser.k = "Or"
    /\ ~CallsOf("a")[1].ok
    /\ CallsOf("a")[1].end > start + 1
    /\ CallsOf("b")[1].at = start

\* Both failed at the same position: the error names both.
C18_WitnessMerged ==
    /\ Failed /\ parser.k = "Or"
    /\ res.err[1].by = {"a", "b"}

(***************************************************************************)
(* C19  Rewind: when the child succeeds, Rewind returns the child's output *)
(* and the cursor equals the position saved at entry (nothing is           *)
(* consumed); Rewind succeeds if and only if the child succeeds.           *)
(***************************************************************************)
C19_Rewind ==
    (Done /\ parser.k = "Rewind")
        => LET c == CallsOf("parser")
               r == Alone(mode, parser.parser)
           IN /\ Returned
              /\ Len(c) = 1 /\ c[1].at = start /\ c[1].mode = mode
              /\ res.ok <=> c[1].ok
              /\ c[1].ok => /\ res.out = r.out
                            /\ inp.pos = start

\* The child consumed input, and Rewind gave it back with the output kept.
C19_Witness ==
    /\ Succeeded /\ parser.k = "Rewind" /\ mode = "Emit"
    /\ CallsOf("parser")[1].end > start
    /\ res.out # None
    /\ inp.pos = start

\* The child failed, and so did Rewind.
C19_WitnessFails ==
    /\ Failed /\ parser.k = "Rewind"
    /\ ~CallsOf("parser")[1].ok

(***************************************************************************)
(* Reading a fixed number of separated items                               *)
(***************************************************************************)
\* The attempts of the children (items and separators), in order.
Attempts == SelectSeq(inp.ev, LAMBDA e : e.e = "leaf")

\* The number of items the input holds from pos on: item (sep item)*.
RECURSIVE MoreExactItems(_)
MoreExactItems(pos) ==
    IF StandsAt(Sep.seq, pos) /\ StandsAt(Item.seq, pos + Len(Sep.seq))
    THEN 1 + MoreExactItems(pos + Len(Sep.seq) + Len(Item.seq))
    ELSE 0
ExactItemsAt(pos) ==
    IF StandsAt(Item.seq, pos) THEN 1 + MoreExactItems(pos + Len(Item.seq)) ELSE 0

(***************************************************************************)
(* C20  SeparatedByExactly<N> leak safety: a separator is attempted, in    *)
(* Check mode, between successive items and never after the N-th item      *)
(* unless allow_trailing is set; if an item or a separator is missing      *)
(* before N items were written, the parser fails and each of the i slots   *)
(* already written is released exactly once while no slot of index >= i is *)
(* read or released; on success all N slots are initialized when the       *)
(* buffer is converted to the result.                                      *)
(***************************************************************************)
C20_SeparatedByExactlySafety ==
    (Done /\ parser.k = "SeparatedByExactly")
        => LET L == Attempts
               lead == IF parser.allow_leading THEN 1 ELSE 0
               i == Len(OkCallsOf("item"))
           IN /\ \A j \in 1..Len(L) :
                    \* the leading separator, then item, separator, item, ..
                    /\ L[j].tag = IF j <= lead \/ (j - lead) % 2 = 0
                                  THEN "sep" ELSE "item"
                    /\ L[j].tag = "sep" => L[j].mode = "Check"
                    /\ L[j].tag = "item" => L[j].mode = mode
                    /\ j > lead + 1 => L[j - 1].ok /\ L[j].at = L[j - 1].end
                    \* a separator after the k-th item: k < N, or k = N and
                    \* allow_trailing
                    /\ (j > lead /\ L[j].tag = "sep")
                          => \/ (j - lead) \div 2 < parser.N
                             \/ (j - lead) \div 2 = parser.N /\ parser.allow_trailing
              \* an item that is not the N-th is followed by a separator attempt
              /\ (Returned /\ L # << >> /\ Last(L).tag = "item" /\ Last(L).ok)
                    => i = parser.N /\ ~parser.allow_trailing
              /\ ExactItemsAt(FirstItemAt) < parser.N => Failed
              /\ Failed
                    => /\ i < parser.N \/ parser.N = 0
                       /\ ~Last(L).ok
                       /\ Slots("write") = UpTo(i)
                       /\ Slots("drop") = UpTo(i)
                       /\ Slots("drop_uninit") = << >>
                       /\ Slots("take") = << >> /\ Slots("take_uninit") = << >>
              /\ Succeeded
                    => /\ i = parser.N
                       /\ Slots("write") = UpTo(parser.N)
                       /\ Slots("take") = <<parser.N>>
                       /\ Last(inp.ev).e = "take"
                       /\ Slots("take_uninit") = << >>
                       /\ Slots("drop") = << >> /\ Slots("drop_uninit") = << >>

\* The separator after the first of two items is missing: the slot written
\* is released.
C20_Witness ==
    /\ Failed /\ parser.k = "SeparatedByExactly" /\ parser.N = 2
    /\ Last(Attempts).tag = "sep"
    /\ Slots("write") = <<0>>
    /\ Slots("drop") = <<0>>

\* The second item is missing after its separator.
C20_WitnessItemMissing ==
    /\ Failed /\ parser.k = "SeparatedByExactly" /\ parser.N = 2
    /\ Last(Attempts).tag = "item"
    /\ Slots("drop") = <<0>>

\* Two items, and the trailing separator taken.
C20_WitnessTrailing ==
    /\ Succeeded /\ parser.k = "SeparatedByExactly" /\ parser.N = 2
    /\ Last(Attempts).tag = "sep" /\ Last(Attempts).ok
    /\ Slots("take") = <<2>>


(***************************************************************************)
(* Reading a container                                                     *)
(***************************************************************************)
\* The items pushed so far, in push order.
Pushed == SubSeq(input, 1, inp.pos)

\* The places of the container that hold x (an entry of key x, for a map).
PlacesOfKey(key) == {i \in 1..Len(res.out) : res.out[i][1] = key}
PlacesOf(x) == {i \in 1..Len(res.out) : res.out[i] = x}
PushesOfKey(key) == {i \in 1..Len(Pushed) : Pushed[i][1] = key}
\* The greatest member of a set of numbers.
Greatest(S) == CHOOSE i \in S : \A j \in S : j <= i

(***************************************************************************)
(* C21  Container push semantics: after any sequence of pushes starting    *)
(* from the default container, the unit container is unchanged, a Vec      *)
(* holds all pushed items in push order, a map holds for each pushed key   *)
(* exactly the value of the last push of that key, and a set holds each    *)
(* distinct pushed member exactly once.                                    *)
(***************************************************************************)
C21_ContainerPush ==
    /\ parser.c = "unit" => res.out = Container_default("unit")
    /\ parser.c = "Vec" => res.out = Pushed
    /\ parser.c = "map"
          => \A key \in Keys :
                IF PushesOfKey(key) = {}
                THEN PlacesOfKey(key) = {}
                ELSE /\ Cardinality(PlacesOfKey(key)) = 1
                     /\ \A i \in PlacesOfKey(key) :
                           res.out[i][2] = Pushed[Greatest(PushesOfKey(key))][2]
    /\ parser.c = "set"
          => \A x \in PushItems :
                Cardinality(PlacesOf(x))
                    = IF \E i \in 1..Len(Pushed) : Pushed[i] = x THEN 1 ELSE 0

\* A key pushed twice into a map, with two values.
C21_Witness ==
    /\ parser.c = "map" /\ inp.pos = 3
    /\ Pushed[1][1] = Pushed[3][1]
    /\ Pushed[1][2] # Pushed[3][2]
    /\ Pushed[2][1] # Pushed[1][1]
    /\ Len(res.out) = 2

\* A member pushed twice into a set.
C21_WitnessSet ==
    /\ parser.c = "set" /\ inp.pos = 2
    /\ Pushed[1] = Pushed[2]
    /\ Len(res.out) = 1


(***************************************************************************)
(* C22  SeparatedBy respects at_most: for every at_most (0 and 1 too),     *)
(* every at_least, flag setting and input, the number of items accumulated *)
(* never exceeds at_most, and no item is attempted once the count has      *)
(* reached at_most.                                                        *)
(***************************************************************************)
\* The number of items accumulated before the j-th event of the call.
CountedBefore(j) ==
    Cardinality({h \in 1..(j - 1) : inp.ev[h].e = "count"})

C22_RespectsAtMost ==
    (Done /\ IsList /\ parser.at_most # None)
        => /\ Counted <= parser.at_most[1]
           /\ mode = "Emit" /\ res.ok => Len(res.out[1]) <= parser.at_most[1]
           /\ \A j \in 1..Len(inp.ev) :
                 (inp.ev[j].e = "leaf" /\ inp.ev[j].tag = "item")
                     => CountedBefore(j) < parser.at_most[1]

\* at_most is respected from 2 on: the first test of the count comes after
\* the second item.
C22_RespectsAtMostFromTwo ==
    (IsList /\ parser.at_most # None /\ parser.at_most[1] >= 2)
        => C22_RespectsAtMost

\* Two items accumulated under at_most = 1.
C22_Witness ==
    /\ Succeeded /\ IsList /\ mode = "Emit"
    /\ parser.at_most = Some(1)
    /\ Counted = 2
    /\ Len(res.out[1]) = 2

\* An item accumulated under at_most = 0.
C22_WitnessZero ==
    /\ Succeeded /\ IsList
    /\ parser.at_most = Some(0)
    /\ Counted >= 1


(***************************************************************************)
(* C23  SeparatedBy failure protocol: when SeparatedBy fails after at      *)
(* least one item was accumulated (count < at_least), the cursor is left   *)
(* at the position saved before the last separator attempt, which is       *)
(* immediately after the last accumulated item, and the error returned is  *)
(* the separator's error if the separator attempt failed and the item's    *)
(* error if the separator succeeded but the following item failed.         *)
(***************************************************************************)
C23_FailureProtocol ==
    (Failed /\ IsList /\ Counted >= 1)
        => LET last == Last(Attempts)
               item == Last(OkCallsOf("item"))
               sep == Last(CallsOf("sep"))
           IN /\ Counted < parser.at_least
              /\ inp.pos = sep.at
              /\ inp.pos = item.end
              /\ ~last.ok
              /\ IF sep.ok
                 THEN /\ last.tag = "item" /\ last.at = sep.end
                      /\ res.err = Go(mode, parser.parser, NewInputRef(sep.end)).err
                 ELSE /\ last.tag = "sep"
                      /\ res.err = Go("Check", parser.separator, NewInputRef(sep.at)).err

\* The item after a separator is missing: the failure gives the separator
\* back and returns the item's error.
C23_Witness ==
    /\ Failed /\ IsList /\ Counted >= 1
    /\ Last(CallsOf("sep")).ok
    /\ inp.pos < Last(CallsOf("sep")).end
    /\ res.err[1].by = {"item"}

\* The separator is missing: its error is returned.
C23_WitnessSeparator ==
    /\ Failed /\ IsList /\ Counted >= 1
    /\ ~Last(CallsOf("sep")).ok
    /\ res.err[1].by = {"sep"}


(***************************************************************************)
(* C24  DelimitedBy and PaddedBy run start delimiter, inner parser, end    *)
(* delimiter strictly in that order, the delimiters in Check mode and the  *)
(* inner parser in the requested mode; a failure of any of the three is    *)
(* returned at once without running the remaining ones and without any     *)
(* rewind by the combinator, so the cursor stays where the failing child   *)
(* left it.                                                                *)
(***************************************************************************)
\* The three children, in the order of the code.
Delimited ==
    IF parser.k = "DelimitedBy"
    THEN <<[p |-> parser.start, M |-> "Check"], [p |-> parser.parser, M |-> mode],
           [p |-> parser.end, M |-> "Check"]>>
    ELSE <<[p |-> parser.padding, M |-> "Check"], [p |-> parser.parser, M |-> mode],
           [p |-> parser.padding, M |-> "Check"]>>

C24_DelimitedInOrder ==
    (Done /\ parser.k \in {"DelimitedBy", "PaddedBy"})
        => LET L == Attempts
               n == Len(L)
           IN /\ Returned
              /\ 1 <= n /\ n <= 3
              /\ \A j \in 1..n :
                    /\ L[j].tag = Delimited[j].p.tag
                    /\ L[j].mode = Delimited[j].M
                    /\ L[j].at = IF j = 1 THEN start ELSE L[j - 1].end
                    /\ j < n => L[j].ok
              /\ n < 3 => ~L[n].ok
              /\ res.ok <=> L[n].ok
              /\ inp.pos = L[n].end
              /\ ~res.ok
                    => res.err = Go(Delimited[n].M, Delimited[n].p, NewInputRef(L[n].at)).err
              /\ res.ok
                    => res.out = Go(mode, parser.parser, NewInputRef(L[2].at)).out

\* The end delimiter fails after reading a token: the cursor stays past the
\* start delimiter, the inner parser and that token.
C24_Witness ==
    /\ Failed /\ parser.k = "DelimitedBy"
    /\ Len(Attempts) = 3
    /\ Attempts[3].end > Attempts[3].at
    /\ inp.pos = Attempts[3].end

\* The inner parser of PaddedBy fails: the second padding is not run.
C24_WitnessPadded ==
    /\ Failed /\ parser.k = "PaddedBy"
    /\ Len(Attempts) = 2
    /\ inp.pos > start


(***************************************************************************)
(* C25  Filter runs its child in Emit mode whatever mode is requested, and *)
(* when the child succeeds but the predicate rejects the value, Filter     *)
(* fails with a located error whose position is the checkpoint saved       *)
(* before the child ran, not the position reached after the child's        *)
(* consumption.                                                            *)
(***************************************************************************)
\* The child succeeded and the predicate rejected its value.
Rejected ==
    /\ Done /\ parser.k = "Filter"
    /\ CallsOf("parser")[1].ok
    /\ input[CallsOf("parser")[1].at + 1] \notin parser.filter

C25_FilterErrorAtCheckpoint ==
    (Done /\ parser.k = "Filter")
        => LET c == CallsOf("parser")
           IN /\ Returned
              /\ Len(c) = 1 /\ c[1].at = start /\ c[1].mode = "Emit"
              /\ Rejected => /\ Failed
                             /\ res.err[1].pos = start

\* The error of a rejected value is located where the child left the cursor.
C25_FilterErrorAfterChild ==
    (Done /\ parser.k = "Filter")
        => LET c == CallsOf("parser")
           IN /\ Returned
              /\ Len(c) = 1 /\ c[1].at = start /\ c[1].mode = "Emit"
              /\ res.ok <=> (c[1].ok /\ ~Rejected)
              /\ Rejected => /\ Failed
                             /\ res.err[1].pos = c[1].end
                             /\ inp.pos = c[1].end

\* A value rejected in Check mode: the error is located one token past the
\* checkpoint.
C25_Witness ==
    /\ Rejected /\ Failed /\ mode = "Check"
    /\ CallsOf("parser")[1].mode = "Emit"
    /\ res.err[1].pos = start + 1


(***************************************************************************)
(* C26  Repeated respects both bounds on success: for every at_least,      *)
(* at_most (at_most = 0 and at_most < at_least too) and input, whenever    *)
(* Repeated::go returns success the number c of accumulated items          *)
(* satisfies at_least <= c, and c <= at_most when at_most is set.          *)
(***************************************************************************)
C26_RepeatedWithinBounds ==
    (Succeeded /\ parser.k = "Repeated")
        => /\ mode = "Emit" => Len(res.out[1]) = Counted
           /\ parser.at_least <= Counted
           /\ parser.at_most # None => Counted <= parser.at_most[1]

\* Both bounds are respected when at_most is unset, or at least 1 and not
\* below at_least.
C26_RepeatedWithinOrderedBounds ==
    (parser.k = "Repeated"
        /\ (parser.at_most = None
               \/ (1 <= parser.at_most[1] /\ parser.at_least <= parser.at_most[1])))
        => C26_RepeatedWithinBounds

\* One item accumulated under at_most = 0.
C26_Witness ==
    /\ Succeeded /\ parser.k = "Repeated" /\ mode = "Emit"
    /\ parser.at_most = Some(0)
    /\ Counted = 1
    /\ Len(res.out[1]) = 1

\* A success with fewer items than at_least, stopped by at_most.
C26_WitnessBelowAtLeast ==
    /\ Succeeded /\ parser.k = "Repeated"
    /\ parser.at_most # None
    /\ Counted < parser.at_least


(***************************************************************************)
(* C27  Repeated terminates: on every finite input and for every child     *)
(* parser whose own invocations terminate (a child that can succeed        *)
(* without consuming any token too), Repeated::go with at_most unset       *)
(* eventually returns.                                                     *)
(***************************************************************************)
C27_RepeatedTerminates ==
    (pc = "loop" /\ parser.at_most = None) ~> (pc = "done")

\* The child consumes at least one token whenever it succeeds.
Consumes(p) == p.k = "Just" /\ p.seq # << >>

\* With a child that consumes whenever it succeeds, or with at_most set,
\* Repeated::go returns.
C27_TerminatesWhenChildConsumes ==
    (pc = "loop" /\ (Consumes(parser.parser) \/ parser.at_most # None)) ~> (pc = "done")

\* An iteration that succeeds without consuming leaves the loop where it was:
\* same cursor, and nothing that the next iteration reads has changed.
C27_NoProgress ==
    [][(pc = "loop" /\ pc' = "loop" /\ inp'.pos = inp.pos)
          => (RepeatedItem.ok /\ RepeatedItem' = RepeatedItem)]_vars

\* The loop has gone round without moving the cursor until count wrapped.
C27_Witness ==
    /\ pc = "loop" /\ parser.at_most = None
    /\ ~Consumes(parser.parser)
    /\ frame.count = UsizeRange - 1
    /\ inp.pos = start
    /\ RepeatedItem.ok


(***************************************************************************)
(* C28  Fixed-arity writes stay in bounds: for every N >= 0 (N = 0 too),   *)
(* every mode and every input, RepeatedExactly<N> and SeparatedByExactly<N> *)
(* only write to slot indices i with 0 <= i < N, never attempt more than N *)
(* item writes, and therefore never panic on an out-of-range slot.         *)
(***************************************************************************)
IsExactly == parser.k \in {"RepeatedExactly", "SeparatedByExactly"}

C28_WritesInBounds ==
    (Done /\ IsExactly)
        => /\ ~res.panic
           /\ \A j \in 1..Len(Slots("write")) :
                 0 <= Slots("write")[j] /\ Slots("write")[j] < parser.N
           \* every item that succeeds is written
           /\ Len(OkCallsOf("item")) <= parser.N

\* From N = 1 on, the writes stay in bounds.
C28_WritesInBoundsFromOne ==
    (IsExactly /\ parser.N >= 1) => C28_WritesInBounds

\* N = 0: the write of the first item is out of range.
C28_Witness ==
    /\ Done /\ IsExactly /\ parser.N = 0
    /\ res.panic
    /\ Len(OkCallsOf("item")) = 1
    /\ Slots("write") = << >>

\* N = 0 with the unit container: items go on being taken past N.
C28_WitnessUnit ==
    /\ Failed /\ parser.k = "RepeatedExactly" /\ parser.N = 0
    /\ parser.c = "unit"
    /\ Len(OkCallsOf("item")) >= 2


(***************************************************************************)
(* C29  User state is mode-independent: for MapWithState and               *)
(* TryMapWithState, go::<Check> and go::<Emit> from the same cursor and    *)
(* the same user state invoke the state-mutating mapper the same number of *)
(* times and leave the same user state.                                    *)
(***************************************************************************)
IsStateAware == parser.k \in {"MapWithState", "TryMapWithState"}

C29_StateModeIndependent ==
    (Done /\ IsStateAware)
        => /\ twin.calls = MapperCalls(inp)
           /\ twin.state = inp.state

\* TryMapWithState calls its mapper once in either mode when the child
\* succeeds; MapWithState calls it in Emit mode only.
C29_MapperCalls ==
    (Done /\ IsStateAware)
        => LET c == CallsOf("parser")
               called == /\ c[1].ok
                         /\ (parser.k = "TryMapWithState" \/ mode = "Emit")
           IN /\ Returned
              /\ Len(c) = 1 /\ c[1].mode = "Emit"
              /\ MapperCalls(inp) = IF called THEN 1 ELSE 0
              /\ parser.k = "TryMapWithState" => C29_StateModeIndependent
              /\ twin.ok = res.ok /\ twin.pos = inp.pos

\* MapWithState in Check mode: the mapper was not called, and in Emit mode it
\* is called and changes the user state.
C29_Witness ==
    /\ Succeeded /\ parser.k = "MapWithState" /\ mode = "Check"
    /\ MapperCalls(inp) = 0
    /\ twin.calls = 1
    /\ twin.state # inp.state


(***************************************************************************)
(* C30  Empty SeparatedBy consumes nothing: for every flag setting         *)
(* (allow_leading and allow_trailing too), whenever SeparatedBy with       *)
(* at_least = 0 succeeds with zero accumulated items, the cursor equals    *)
(* the position at which SeparatedBy::go was entered.                      *)
(***************************************************************************)
EmptyList == Succeeded /\ IsList /\ parser.at_least = 0 /\ Counted = 0

C30_EmptyConsumesNothing ==
    EmptyList => /\ inp.pos = start
                 /\ mode = "Emit" => res.out = Some(<< >>)

\* The empty list ends where its first item was looked for: at the entry
\* position, or after the leading separator that allow_leading took; no
\* trailing separator is attempted.
C30_EmptyEndsAtFirstItem ==
    EmptyList => /\ inp.pos = FirstItemAt
                 /\ ~parser.allow_leading => inp.pos = start
                 /\ mode = "Emit" => res.out = Some(<< >>)
                 /\ Len(CallsOf("sep")) = IF parser.allow_leading THEN 1 ELSE 0
                 /\ Last(Attempts).tag = "item" /\ Last(Attempts).at = inp.pos

\* An empty list whose leading separator stays consumed.
C30_Witness ==
    /\ EmptyList /\ parser.allow_leading
    /\ CallsOf("sep")[1].ok
    /\ inp.pos = start + 1

====
